---- MODULE Spec2Model ----
(***************************************************************************)
(* A model of the ASO scripts: competitor_research, keyword_tracker,       *)
(* metadata_optimizer and screenshot_generator.                            *)
(*                                                                         *)
(* A Python str is a sequence of one-character strings, so that len, join, *)
(* lower, strip, split, replace and the `in` substring test are computed   *)
(* as the code computes them.  A Python list is a sequence, None is the    *)
(* model value None.                                                       *)
(***************************************************************************)
EXTENDS Integers, Sequences, FiniteSets, TLC

VARIABLES
    call,        \* the function call under study: its name and arguments
    ret,         \* what the runs of the call returned so far, in order
    script,      \* which script's main() is running
    args,        \* the parsed command line of the run
    pc,          \* position of main()
    response,    \* competitor_research: how the App Store request ended
    apps,        \* competitor_research: the list search_app_store returned
    report,      \* the assembled report text (abstracted to a record)
    output_file, \* main's local output_file
    files,       \* the file writes of the run, in order: <<path, report>>
    console,     \* the messages printed, in order
    http_gets,   \* number of urlopen calls issued
    effects,     \* the run's steps in order: "http", "analyze", ...
    heap         \* the lists, dicts and sets the calls can reach, by name

vars == <<call, ret, script, args, pc, response, apps, report, output_file,
          files, console, http_gets, effects, heap>>

fnVars == <<call, ret, heap>>
runVars == <<script, args, pc, response, apps, report, output_file, files, console,
             http_gets, effects>>

None == "None"

-----------------------------------------------------------------------------
(* Python str operations                                                    *)

LowerLetters == <<"a","b","c","d","e","f","g","h","i","j","k","l","m",
                  "n","o","p","q","r","s","t","u","v","w","x","y","z">>
UpperLetters == <<"A","B","C","D","E","F","G","H","I","J","K","L","M",
                  "N","O","P","Q","R","S","T","U","V","W","X","Y","Z">>

IndexIn(c, letters) == CHOOSE i \in 1..Len(letters) : letters[i] = c
IsLower(c) == \E i \in 1..Len(LowerLetters) : LowerLetters[i] = c
IsUpper(c) == \E i \in 1..Len(UpperLetters) : UpperLetters[i] = c

\* ord(c) for the characters the model uses
Ord(c) ==
    IF IsLower(c) THEN 96 + IndexIn(c, LowerLetters)
    ELSE IF IsUpper(c) THEN 64 + IndexIn(c, UpperLetters)
    ELSE CASE c = " " -> 32
           [] c = "," -> 44
           [] c = "." -> 46
           [] c = "_" -> 95
           [] OTHER   -> 63

LowerChar(c) == IF IsUpper(c) THEN LowerLetters[IndexIn(c, UpperLetters)] ELSE c

\* s.lower()
Lower(s) == [i \in 1..Len(s) |-> LowerChar(s[i])]

IsSpace(c) == c = " "

\* s.strip()
Strip(s) ==
    LET nonblank == {i \in 1..Len(s) : ~IsSpace(s[i])}
    IN  IF nonblank = {} THEN <<>>
        ELSE LET lo == CHOOSE i \in nonblank : \A j \in nonblank : i <= j
                 hi == CHOOSE i \in nonblank : \A j \in nonblank : j <= i
             IN  SubSeq(s, lo, hi)

\* s.replace(old, new) for single characters
Replace(s, old, new) == [i \in 1..Len(s) |-> IF s[i] = old THEN new ELSE s[i]]

\* needle in hay
Contains(hay, needle) ==
    \E i \in 0..(Len(hay) - Len(needle)) : SubSeq(hay, i + 1, i + Len(needle)) = needle

\* s.split(): the maximal runs of non-whitespace characters, in order
RECURSIVE SplitFrom(_, _, _)
SplitFrom(s, i, word) ==
    IF i > Len(s) THEN (IF word = <<>> THEN <<>> ELSE <<word>>)
    ELSE IF IsSpace(s[i])
         THEN (IF word = <<>> THEN <<>> ELSE <<word>>) \o SplitFrom(s, i + 1, <<>>)
         ELSE SplitFrom(s, i + 1, Append(word, s[i]))

Split(s) == SplitFrom(s, 1, <<>>)

\* ','.join(items)
RECURSIVE Join(_)
Join(items) ==
    IF items = <<>> THEN <<>>
    ELSE IF Len(items) = 1 THEN items[1]
    ELSE items[1] \o <<",">> \o Join(Tail(items))

\* c repeated n times
Rep(c, n) == [i \in 1..n |-> c]

\* items[:n]
Take(items, n) == SubSeq(items, 1, IF n < Len(items) THEN n ELSE Len(items))

\* items[n:]
Drop(items, n) == SubSeq(items, n + 1, Len(items))

Range(f) == {f[i] : i \in DOMAIN f}

\* the lists over pool of length lo..hi
Lists(pool, lo, hi) == UNION {[1..n -> pool] : n \in lo..hi}

\* the orders in which a set can be iterated
Orders(S) == {o \in [1..Cardinality(S) -> S] : Range(o) = S}

\* sorted(items, key=...): Python's sort is stable; keys[i] is the key of
\* items[i], a pair of integers compared lexicographically
KeyLess(a, b) == a[1] < b[1] \/ (a[1] = b[1] /\ a[2] < b[2])

Sorted(items, keys) ==
    LET n == Len(items)
        rank(i) == Cardinality({j \in 1..n : \/ KeyLess(keys[j], keys[i])
                                            \/ (keys[j] = keys[i] /\ j <= i)})
    IN  [p \in 1..n |-> items[CHOOSE i \in 1..n : rank(i) = p]]

-----------------------------------------------------------------------------
(* keyword_tracker.py                                                       *)

W_baby    == <<"b","a","b","y">>
W_health  == <<"h","e","a","l","t","h">>
W_newborn == <<"n","e","w","b","o","r","n">>
W_fitness == <<"f","i","t","n","e","s","s">>
W_app     == <<"a","p","p">>
W_free    == <<"f","r","e","e">>
W_best    == <<"b","e","s","t">>
W_new     == <<"n","e","w">>
W_top     == <<"t","o","p">>
W_pro     == <<"p","r","o">>

\* KEYWORD_MODIFIERS, in the dict's order.  The table is static data: the
\* model keeps its first two categories and the first modifier of each list
\* (and of the default list), so that the set built from them stays small.
KEYWORD_MODIFIERS == << <<W_baby, <<W_newborn>> >>, <<W_health, <<W_fitness>> >> >>

DefaultModifiers == <<W_app>>

get_category_modifiers(category) ==
    LET category_lower == Lower(category)
        hits == {i \in 1..Len(KEYWORD_MODIFIERS) :
                    Contains(category_lower, KEYWORD_MODIFIERS[i][1])}
    IN  IF hits = {} THEN DefaultModifiers
        ELSE KEYWORD_MODIFIERS[CHOOSE i \in hits : \A j \in hits : i <= j][2]

\* the set `combinations` that generate_keyword_combinations builds; the list
\* it returns is list(combinations), whose order is the set's iteration order
generate_keyword_combinations(base_terms, modifiers) ==
    LET clean(t) == Strip(Lower(t))
    IN  {clean(base_terms[i]) : i \in 1..Len(base_terms)}
        \cup {modifiers[j] : j \in 1..Len(modifiers)}
        \cup {clean(base_terms[i]) \o <<" ">> \o modifiers[j] :
                  i \in 1..Len(base_terms), j \in 1..Len(modifiers)}
        \cup {modifiers[j] \o <<" ">> \o clean(base_terms[i]) :
                  i \in 1..Len(base_terms), j \in 1..Len(modifiers)}

common_words == {W_app, W_free, W_best, W_new, W_top, W_pro}

\* length_score is kept in hundredths: max(0, 10 - len) / 10 has one decimal
estimate_keyword_value(keyword, category) ==
    LET keyword_lower == Lower(keyword)
        competition == IF \E w \in common_words : Contains(keyword_lower, w)
                       THEN "High" ELSE "Medium"
        word_count == Len(Split(keyword))
        volume == IF word_count = 1
                  THEN (IF Len(keyword) < 8 THEN "High" ELSE "Medium")
                  ELSE IF word_count = 2 THEN "Medium-High" ELSE "Low-Medium"
        difficulty == 50 + (IF competition = "High" THEN 30 ELSE 0)
                         + (IF Len(keyword) < 6 THEN 10 ELSE 0)
    IN  [keyword |-> keyword,
         search_volume |-> volume,
         competition |-> competition,
         difficulty |-> IF difficulty < 100 THEN difficulty ELSE 100,
         length_score |-> (IF Len(keyword) < 10 THEN 10 - Len(keyword) ELSE 0) * 10,
         character_count |-> Len(keyword),
         word_count |-> word_count]

RECURSIVE FieldLoopNoSeparator(_, _, _, _, _)
FieldLoopNoSeparator(sorted_keywords, i, selected, current_length, max_chars) ==
    IF i > Len(sorted_keywords) THEN selected
    ELSE LET keyword == sorted_keywords[i]
             new_length == current_length + Len(keyword)
         IN  IF new_length <= max_chars
             THEN FieldLoopNoSeparator(sorted_keywords, i + 1, Append(selected, keyword),
                                       new_length, max_chars)
             ELSE selected

\* the loop of optimize_keywords_for_field from position i on: it stops at
\* the first keyword that does not fit
RECURSIVE FieldLoop(_, _, _, _, _)
FieldLoop(sorted_keywords, i, selected, current_length, max_chars) ==
    IF i > Len(sorted_keywords) THEN selected
    ELSE LET keyword == sorted_keywords[i]
             separator == IF selected # <<>> THEN 1 ELSE 0
             new_length == current_length + Len(keyword) + separator
         IN  IF new_length <= max_chars
             THEN FieldLoop(sorted_keywords, i + 1, Append(selected, keyword),
                            new_length, max_chars)
             ELSE selected

FieldSortKeyLongestFirst(k) == <<0 - Len(k), IF k # <<>> THEN 0 - Ord(k[1]) ELSE 0>>

\* the sort key (len(k), -ord(k[0]) if k else 0)
FieldSortKey(k) == <<Len(k), IF k # <<>> THEN 0 - Ord(k[1]) ELSE 0>>

optimize_keywords_for_field(keywords, max_chars) ==
    LET sorted_keywords == Sorted(keywords, [i \in 1..Len(keywords) |-> FieldSortKey(keywords[i])])
    IN  Join(FieldLoop(sorted_keywords, 1, <<>>, 0, max_chars))

DefaultMaxChars == 100
EvaluatedLimit == 50

\* generate_keyword_report, given the order in which list(combinations)
\* came out of the set: the keyword field and the metrics it was packed from
generate_keyword_report(category, app_name, base_terms, all_keywords) ==
    LET head == Take(all_keywords, EvaluatedLimit)
        metrics == [i \in 1..Len(head) |-> estimate_keyword_value(head[i], category)]
        keyword_metrics == Sorted(metrics, [i \in 1..Len(metrics) |-> <<metrics[i].difficulty, 0>>])
        keyword_field == optimize_keywords_for_field(
                             [i \in 1..Len(keyword_metrics) |-> keyword_metrics[i].keyword],
                             DefaultMaxChars)
    IN  [keyword_field |-> keyword_field,
         character_count |-> Len(keyword_field),
         keyword_metrics |-> keyword_metrics]

-----------------------------------------------------------------------------
(* The objects a call can reach: the module-level tables                    *)
(* heap maps the name of a list, dict or set to its present value.  A       *)
(* variable of the code holds such a name, so two variables holding the     *)
(* same name are aliases of one object.                                     *)

\* screenshot_generator.SCREENSHOT_DIMENSIONS, in the order of the dict; its
\* strings are kept whole, nothing reads into them
SCREENSHOT_DIMENSIONS == <<
    [size |-> "6.7 inch",
     devices |-> <<"iPhone 16 Pro Max", "iPhone 15 Pro Max",
                   "iPhone 14 Pro Max">>,
     portrait |-> "1290 x 2796", landscape |-> "2796 x 1290",
     required |-> TRUE],
    [size |-> "6.5 inch",
     devices |-> <<"iPhone 14 Plus", "iPhone 13 Pro Max",
                   "iPhone 12 Pro Max", "iPhone 11 Pro Max", "iPhone 11">>,
     portrait |-> "1284 x 2778", landscape |-> "2778 x 1284",
     required |-> TRUE],
    [size |-> "5.5 inch",
     devices |-> <<"iPhone 8 Plus", "iPhone 7 Plus", "iPhone 6s Plus">>,
     portrait |-> "1242 x 2208", landscape |-> "2208 x 1242",
     required |-> FALSE],
    [size |-> "iPad Pro 6th Gen",
     devices |-> <<"iPad Pro 12.9\" (6th gen)">>,
     portrait |-> "2048 x 2732", landscape |-> "2732 x 2048",
     required |-> FALSE],
    [size |-> "iPad Pro 2nd Gen",
     devices |-> <<"iPad Pro 12.9\" (2nd gen)">>,
     portrait |-> "2048 x 2732", landscape |-> "2732 x 2048",
     required |-> FALSE]
>>

\* the module-level tables of keyword_tracker and screenshot_generator
ModuleHeap ==
    LET KeywordModifierLists == <<"KEYWORD_MODIFIERS.baby", "KEYWORD_MODIFIERS.health">>
    IN  [id \in {"KEYWORD_MODIFIERS", "SCREENSHOT_DIMENSIONS"} \cup Range(KeywordModifierLists) |->
            IF id = "KEYWORD_MODIFIERS"
            THEN [i \in 1..Len(KEYWORD_MODIFIERS) |->
                     [key |-> KEYWORD_MODIFIERS[i][1], modifiers |-> KeywordModifierLists[i]]]
            ELSE IF id = "SCREENSHOT_DIMENSIONS" THEN SCREENSHOT_DIMENSIONS
            ELSE KEYWORD_MODIFIERS[CHOOSE i \in 1..Len(KeywordModifierLists) :
                                       KeywordModifierLists[i] = id][2]]

-----------------------------------------------------------------------------
(* Calls of the keyword_tracker functions                                   *)

MaxKeywords == 3    \* longest keyword list passed to a packer
MaxRuns == 2        \* how often the same call is repeated

NoRun == [name |-> None]

IdleRun ==
    /\ script = None
    /\ args = NoRun
    /\ pc = "idle"
    /\ response = None
    /\ apps = <<>>
    /\ report = NoRun
    /\ output_file = <<>>
    /\ files = <<>>
    /\ console = <<>>
    /\ http_gets = 0
    /\ effects = <<>>

T_a  == <<"a">>
T_b  == <<"b">>
T_ab == <<"a","b">>
T_Ab_padded == <<" ","A","b"," ">>

\* keywords of every shape: empty, short, and long enough that two or three
\* of them fill the 100 characters, or that one alone exceeds them
FieldKeywordPool == {<<>>, T_a, T_b, T_ab, Rep("c", 49), Rep("d", 50), Rep("e", 101)}

FieldCalls ==
    [fn : {"optimize_keywords_for_field"},
     keywords : Lists(FieldKeywordPool, 0, MaxKeywords),
     max_chars : {0, 3, DefaultMaxChars}]

ReportCategories == {W_baby, <<"B","a","b","y">>, W_health, <<"x">>}
ReportBaseTerms == {<<T_ab>>, <<T_Ab_padded>>, <<W_pro>>, <<W_newborn>>,
                    <<T_ab, T_Ab_padded>>, <<W_app>>}

ReportCalls ==
    [fn : {"generate_keyword_report"},
     category : ReportCategories,
     app_name : {<<"A","b">>},
     base_terms : ReportBaseTerms]

InitKT ==
    /\ call \in FieldCalls \cup ReportCalls
    /\ ret = <<>>
    /\ heap = ModuleHeap
    /\ IdleRun

OptimizeKeywordsForField ==
    /\ call.fn = "optimize_keywords_for_field"
    /\ Len(ret) < MaxRuns
    /\ ret' = Append(ret, optimize_keywords_for_field(call.keywords, call.max_chars))
    /\ UNCHANGED <<call, heap, runVars>>

\* one run of generate_keyword_report: the set of combinations is iterated in
\* an order the run does not control (str hashes are salted per process)
GenerateKeywordReport ==
    /\ call.fn = "generate_keyword_report"
    /\ Len(ret) < MaxRuns
    /\ \E all_keywords \in Orders(generate_keyword_combinations(
                                      call.base_terms, get_category_modifiers(call.category))) :
          ret' = Append(ret, generate_keyword_report(call.category, call.app_name,
                                                     call.base_terms, all_keywords))
    /\ UNCHANGED <<call, heap, runVars>>

NextKT == OptimizeKeywordsForField \/ GenerateKeywordReport

SpecKT == InitKT /\ [][NextKT]_vars

\* C1: the string optimize_keywords_for_field returns is never longer than
\* max_chars, commas included; the keyword field of a keyword report (packed
\* with the default budget) is never longer than 100 characters and the
\* character count printed under it is its length.
C1_FieldWithinBudget ==
    /\ call.fn = "optimize_keywords_for_field" =>
           \A i \in 1..Len(ret) : Len(ret[i]) <= call.max_chars
    /\ call.fn = "generate_keyword_report" =>
           \A i \in 1..Len(ret) : /\ Len(ret[i].keyword_field) <= 100
                                  /\ ret[i].character_count = Len(ret[i].keyword_field)

\* a call with the default budget whose result fills all 100 characters and
\* leaves a keyword out
C1_Witness ==
    /\ call.fn = "optimize_keywords_for_field"
    /\ call.max_chars = 100
    /\ ret # <<>>
    /\ Len(ret[1]) = 100
    /\ \E i \in 1..Len(call.keywords) : Len(call.keywords[i]) = 101

\* C10: two runs of generate_keyword_report on the same category, app name
\* and base terms give the same keyword field and evaluate the same set of
\* keywords, whatever order the set of combinations is iterated in.
C10_ReportDeterministic ==
    call.fn = "generate_keyword_report" =>
        \A i, j \in 1..Len(ret) :
            /\ ret[i].keyword_field = ret[j].keyword_field
            /\ {ret[i].keyword_metrics[k].keyword : k \in 1..Len(ret[i].keyword_metrics)}
                 = {ret[j].keyword_metrics[k].keyword : k \in 1..Len(ret[j].keyword_metrics)}

-----------------------------------------------------------------------------
(* metadata_optimizer.py                                                    *)

KeywordFieldLimit == 100
UnusedShown == 10

\* the filter with only the `kw_clean in used` test
RECURSIVE AvailableKeywordsOneWay(_, _)
AvailableKeywordsOneWay(keywords, used_words) ==
    IF keywords = <<>> THEN <<>>
    ELSE LET kw_clean == Strip(Lower(Head(keywords)))
             should_skip == \E used \in used_words : Contains(used, kw_clean)
         IN  (IF should_skip THEN <<>> ELSE <<kw_clean>>)
             \o AvailableKeywordsOneWay(Tail(keywords), used_words)

\* the filter of optimize_keywords: the cleaned keywords that neither
\* contain a used word nor are contained in one, in the order given
RECURSIVE AvailableKeywords(_, _)
AvailableKeywords(keywords, used_words) ==
    IF keywords = <<>> THEN <<>>
    ELSE LET kw_clean == Strip(Lower(Head(keywords)))
             should_skip == \E used \in used_words :
                                Contains(used, kw_clean) \/ Contains(kw_clean, used)
         IN  (IF should_skip THEN <<>> ELSE <<kw_clean>>)
             \o AvailableKeywords(Tail(keywords), used_words)

KeywordFitsNoSeparator(current_length, n, separator) ==
    current_length + n <= KeywordFieldLimit

\* does a keyword of length n fit after current_length characters?
KeywordFits(current_length, n, separator) ==
    current_length + n + separator <= KeywordFieldLimit

\* the packing loop stopping at the first keyword that does not fit
RECURSIVE SelectLoopStopAtFirst(_, _, _, _)
SelectLoopStopAtFirst(available_keywords, i, selected, current_length) ==
    IF i > Len(available_keywords) THEN selected
    ELSE LET kw == available_keywords[i]
             separator == IF selected # <<>> THEN 1 ELSE 0
         IN  IF KeywordFits(current_length, Len(kw), separator)
             THEN SelectLoopStopAtFirst(available_keywords, i + 1, Append(selected, kw),
                                        current_length + Len(kw) + separator)
             ELSE selected

\* the packing loop of optimize_keywords from position i on: a keyword that
\* does not fit is passed over and the loop goes on
RECURSIVE SelectLoop(_, _, _, _)
SelectLoop(available_keywords, i, selected, current_length) ==
    IF i > Len(available_keywords) THEN selected
    ELSE LET kw == available_keywords[i]
             separator == IF selected # <<>> THEN 1 ELSE 0
         IN  IF KeywordFits(current_length, Len(kw), separator)
             THEN SelectLoop(available_keywords, i + 1, Append(selected, kw),
                             current_length + Len(kw) + separator)
             ELSE SelectLoop(available_keywords, i + 1, selected, current_length)

optimize_keywords(keywords, title, subtitle) ==
    LET used_words == Range(Split(Lower(title))) \cup Range(Split(Lower(subtitle)))
        available_keywords == AvailableKeywords(keywords, used_words)
        selected == SelectLoop(available_keywords, 1, <<>>, 0)
        keyword_string == Join(selected)
    IN  [keywords |-> keyword_string,
         length |-> Len(keyword_string),
         count |-> Len(selected),
         strategy |-> "Maximize coverage without repeating title/subtitle words",
         unused_keywords |-> Take(Drop(available_keywords, Len(selected)), UnusedShown)]

-----------------------------------------------------------------------------
(* Calls of the metadata_optimizer functions                                *)

MetaKeywordPool == {<<>>, T_a, T_Ab_padded, <<"b","c">>,
                    Rep("c", 49), Rep("d", 50), Rep("e", 101)}

KeywordsCalls ==
    [fn : {"optimize_keywords"},
     keywords : Lists(MetaKeywordPool, 0, MaxKeywords),
     title : {<<>>, <<"A","b">>, <<"c"," ","D">>},
     subtitle : {<<>>, <<"b">>}]

InitMO ==
    /\ call \in KeywordsCalls
    /\ ret = <<>>
    /\ heap = ModuleHeap
    /\ IdleRun

OptimizeKeywords ==
    /\ call.fn = "optimize_keywords"
    /\ Len(ret) < MaxRuns
    /\ ret' = Append(ret, optimize_keywords(call.keywords, call.title, call.subtitle))
    /\ UNCHANGED <<call, heap, runVars>>

NextMO == OptimizeKeywords

SpecMO == InitMO /\ [][NextMO]_vars

CommaCount(s) == Cardinality({i \in 1..Len(s) : s[i] = ","})

\* C2: the 'keywords' string optimize_keywords returns has at most 100
\* characters, commas included; 'length' is the length of that string and
\* 'count' is the number of keywords the commas of the string separate.
C2_KeywordsWithinLimit ==
    call.fn = "optimize_keywords" =>
        \A i \in 1..Len(ret) :
            /\ Len(ret[i].keywords) <= 100
            /\ ret[i].length = Len(ret[i].keywords)
            /\ \/ ret[i].count = 0 /\ ret[i].keywords = <<>>
               \/ ret[i].count = CommaCount(ret[i].keywords) + 1

\* a call that fills the field to exactly 100 characters with two keywords,
\* having passed over one that did not fit
C2_Witness ==
    /\ call.fn = "optimize_keywords"
    /\ ret # <<>>
    /\ ret[1].length = 100
    /\ ret[1].count = 2
    /\ Len(call.keywords) = 3
    /\ Len(call.keywords[2]) = 101

-----------------------------------------------------------------------------
(* competitor_research.py: the statistics                                   *)
(* A price is kept in thousandths of a dollar (2.99 is 2990), a percentage  *)
(* in tenths of a percent (33.3 is 333), an average price in cents.  The    *)
(* buckets of price_distribution are free, low ('0.99-2.99'), mid           *)
(* ('3.00-9.99') and high ('10.00+').                                       *)

\* round(num / den, ...) to the nearest unit, an exact half to the even one.
\* The percentages agree with Python's float arithmetic for every list of up
\* to 40 apps; for average_price a half that has no exact float may round
\* either way in Python, and no formula below reads average_price.
RoundHalfEven(num, den) ==
    LET q == num \div den
        r == num % den
    IN  IF 2 * r < den THEN q
        ELSE IF 2 * r > den THEN q + 1
        ELSE IF q % 2 = 0 THEN q ELSE q + 1

RECURSIVE SumSeq(_)
SumSeq(s) == IF s = <<>> THEN 0 ELSE Head(s) + SumSeq(Tail(s))

\* app.get('price', 0)
GetPrice(app) == IF "price" \in DOMAIN app THEN app.price ELSE 0

PaidAppsInBuckets(prices, free_apps) ==
    Cardinality({i \in 1..Len(prices) :
                    \/ (0 < prices[i] /\ prices[i] <= 2990)
                    \/ (3000 <= prices[i] /\ prices[i] <= 9990)
                    \/ prices[i] >= 10000})

\* paid_apps = len(prices) - free_apps
PaidApps(prices, free_apps) == Len(prices) - free_apps

Percentage(n, total) == IF total > 0 THEN RoundHalfEven(n * 1000, total) ELSE 0

analyze_pricing(app_list) ==
    LET prices == [i \in 1..Len(app_list) |-> GetPrice(app_list[i])]
        at == 1..Len(prices)
        free_apps == Cardinality({i \in at : prices[i] = 0})
        paid_apps == PaidApps(prices, free_apps)
    IN  [total_analyzed |-> Len(prices),
         free_percentage |-> Percentage(free_apps, Len(prices)),
         paid_percentage |-> Percentage(paid_apps, Len(prices)),
         average_price |-> IF prices # <<>>
                           THEN RoundHalfEven(SumSeq(prices), 10 * Len(prices)) ELSE 0,
         price_distribution |->
             [free |-> free_apps,
              low |-> Cardinality({i \in at : 0 < prices[i] /\ prices[i] <= 2990}),
              mid |-> Cardinality({i \in at : 3000 <= prices[i] /\ prices[i] <= 9990}),
              high |-> Cardinality({i \in at : prices[i] >= 10000})]]

-----------------------------------------------------------------------------
(* Calls of analyze_pricing                                                 *)

MaxApps == 4    \* longest list of app records analysed

\* prices on both edges of every bucket, and between the buckets
PricePool == {0, 990, 2990, 2995, 3000, 9990, 9995, 10000}

\* an app record with its price, and one without the 'price' key
PricingAppPool ==
    {[trackName |-> "n"]} \cup {[trackName |-> "n", price |-> p] : p \in PricePool}

PricingCalls == [fn : {"analyze_pricing"}, apps : Lists(PricingAppPool, 0, MaxApps)]

InitCR ==
    /\ call \in PricingCalls
    /\ ret = <<>>
    /\ heap = ModuleHeap
    /\ IdleRun

AnalyzePricing ==
    /\ call.fn = "analyze_pricing"
    /\ Len(ret) < MaxRuns
    /\ ret' = Append(ret, analyze_pricing(call.apps))
    /\ UNCHANGED <<call, heap, runVars>>

NextCR == AnalyzePricing

SpecCR == InitCR /\ [][NextCR]_vars

BucketSum(d) == d.free + d.low + d.mid + d.high

\* C3: the four price_distribution counts of analyze_pricing sum to
\* total_analyzed: every app's price is counted in exactly one bucket.
C3_BucketsSumToTotal ==
    call.fn = "analyze_pricing" =>
        \A i \in 1..Len(ret) : BucketSum(ret[i].price_distribution) = ret[i].total_analyzed

\* C4 as stated: for every list of app records, free_percentage plus
\* paid_percentage is at most 0.1 away from 100.
C4_PercentagesSumTo100 ==
    call.fn = "analyze_pricing" =>
        \A i \in 1..Len(ret) :
            /\ ret[i].free_percentage + ret[i].paid_percentage >= 999
            /\ ret[i].free_percentage + ret[i].paid_percentage <= 1001

\* C4 as amended: for every list of app records that is not empty,
\* free_percentage plus paid_percentage is at most 0.1 away from 100; for the
\* empty list both are 0.
C4_PercentagesSumTo100_NonEmpty ==
    call.fn = "analyze_pricing" =>
        \A i \in 1..Len(ret) :
            IF call.apps # <<>>
            THEN /\ ret[i].free_percentage + ret[i].paid_percentage >= 999
                 /\ ret[i].free_percentage + ret[i].paid_percentage <= 1001
            ELSE ret[i].free_percentage = 0 /\ ret[i].paid_percentage = 0

\* three apps, one of them free: 33.3 and 66.7, both rounded
C4_Witness ==
    /\ call.fn = "analyze_pricing"
    /\ ret # <<>>
    /\ ret[1].total_analyzed = 3
    /\ ret[1].free_percentage = 333
    /\ ret[1].paid_percentage = 667

-----------------------------------------------------------------------------
(* The four main() functions: one run of a script                           *)

Scripts == {"competitor_research", "keyword_tracker", "metadata_optimizer",
            "screenshot_generator"}

\* the fixed prefix and the extension of a default output path
CompetitorPrefix == <<"c","o","m","p","e","t","i","t","o","r","_","a","n","a","l","y","s","i","s","_">>
KeywordsPrefix == <<"k","e","y","w","o","r","d","s","_">>
MetadataPrefix == <<"m","e","t","a","d","a","t","a","_">>
ScreenshotsPrefix == <<"s","c","r","e","e","n","s","h","o","t","s","_">>
MdSuffix == <<".","m","d">>

SafeNameNotLowered(x) == Replace(x, " ", "_")

\* x.replace(' ', '_').lower()
SafeName(x) == Lower(Replace(x, " ", "_"))

\* the if/else that sets output_file; output is <<>> for None (the flag was
\* not given) and <<path>> otherwise, and Python takes '' for false as well
OutputFile(output, prefix, name) ==
    IF output # <<>> /\ output[1] # <<>>
    THEN output[1]
    ELSE prefix \o SafeName(name) \o MdSuffix

WriteFileTwice(fs, path, text) ==
    fs \o <<[path |-> path, text |-> text], [path |-> path, text |-> text]>>

\* with open(output_file, 'w') as f: f.write(report)
WriteFile(fs, path, text) == Append(fs, [path |-> path, text |-> text])

\* how the request of search_app_store can end: a JSON object with or
\* without 'results', or an exception raised inside the try block
Failures == {"URLError", "timeout", "UnicodeDecodeError", "JSONDecodeError",
             "AttributeError"}
Outcomes == {"ok", "no_results_key"} \cup Failures

CaughtNetworkOnly(outcome) == outcome \in {"URLError", "timeout"}

\* except Exception: every failure above is an Exception
Caught(outcome) == outcome \in Failures

RetryAfterFailure(outcome) == IF outcome \in Failures THEN "search" ELSE "check"

\* where search_app_store goes once the request has ended; it returns to
\* main in every case
AfterResponse(outcome) == "check"

MaxReturned == 2     \* most app records of a response, besides 20, 21 and the limit
AnalyzedLimit == 20
DefaultLimit == 50

ReturnedCounts(limit) == {n \in (0..MaxReturned) \cup {20, 21, limit} : n <= limit}

MakeApps(n) == [i \in 1..n |-> [trackId |-> i, price |-> IF i % 2 = 0 THEN 0 ELSE 990]]

NamePool == {<<"a","b">>, <<"A"," ","b">>, <<" ","Z"," ","z">>}
OutputPool == {<<>>, << <<>> >>, << <<"o",".","m","d">> >>}
LimitPool == {1, 25, DefaultLimit}

\* args = parser.parse_args()
ArgsOf(s) ==
    IF s = "competitor_research"
    THEN [category : NamePool, app_name : {<<>>}, output : OutputPool, limit : LimitPool]
    ELSE [category : {W_baby}, app_name : NamePool, output : OutputPool, limit : {0}]

Init ==
    /\ call = [fn |-> None]
    /\ ret = <<>>
    /\ heap = ModuleHeap
    /\ script \in Scripts
    /\ args \in ArgsOf(script)
    /\ pc = "start"
    /\ response = None
    /\ apps = <<>>
    /\ report = NoRun
    /\ output_file = <<>>
    /\ files = <<>>
    /\ console = <<>>
    /\ http_gets = 0
    /\ effects = <<>>

Say(msgs) ==
    /\ console' = console \o msgs
    /\ effects' = effects \o [i \in 1..Len(msgs) |-> "print"]

(* competitor_research.main *)

CR_Start ==
    /\ script = "competitor_research" /\ pc = "start"
    /\ Say(<<"researching", "searching">>)
    /\ pc' = "search"
    /\ UNCHANGED <<fnVars, script, args, response, apps, report, output_file, files, http_gets>>

\* search_app_store: urlopen sends the one request
SearchRequest ==
    /\ script = "competitor_research" /\ pc = "search"
    /\ http_gets' = http_gets + 1
    /\ effects' = Append(effects, "http")
    /\ pc' = "await"
    /\ UNCHANGED <<fnVars, script, args, response, apps, report, output_file, files, console>>

\* search_app_store: the request ends; a failure is printed and [] returned
SearchResponse ==
    /\ script = "competitor_research" /\ pc = "await"
    /\ \E outcome \in Outcomes :
          /\ response' = outcome
          /\ IF outcome = "ok"
             THEN /\ \E n \in ReturnedCounts(args.limit) : apps' = MakeApps(n)
                  /\ effects' = Append(effects, "response")
                  /\ pc' = AfterResponse(outcome)
                  /\ UNCHANGED console
             ELSE IF outcome = "no_results_key"
             THEN /\ apps' = <<>>
                  /\ effects' = Append(effects, "response")
                  /\ pc' = AfterResponse(outcome)
                  /\ UNCHANGED console
             ELSE IF Caught(outcome)
             THEN /\ apps' = <<>>
                  /\ console' = Append(console, "error")
                  /\ effects' = effects \o <<"response", "print">>
                  /\ pc' = AfterResponse(outcome)
             ELSE /\ pc' = "crashed"
                  /\ effects' = Append(effects, "response")
                  /\ UNCHANGED <<apps, console>>
    /\ UNCHANGED <<fnVars, script, args, report, output_file, files, http_gets>>

\* main: if not apps: print, return; else the path of the report
CR_CheckApps ==
    /\ script = "competitor_research" /\ pc = "check"
    /\ IF apps = <<>>
       THEN /\ Say(<<"no_apps">>)
            /\ pc' = "done"
            /\ UNCHANGED output_file
       ELSE /\ Say(<<"found">>)
            /\ output_file' = OutputFile(args.output, CompetitorPrefix, args.category)
            /\ pc' = "analyze"
    /\ UNCHANGED <<fnVars, script, args, response, apps, report, files, http_gets>>

\* generate_report: the four analyses
GR_Analyze ==
    /\ script = "competitor_research" /\ pc = "analyze"
    /\ report' = [stage |-> "analysis",
                  category |-> args.category,
                  apps_analyzed |-> Len(Take(apps, AnalyzedLimit)),
                  pricing_analysis |-> analyze_pricing(Take(apps, AnalyzedLimit))]
    /\ effects' = Append(effects, "analyze")
    /\ pc' = "template"
    /\ UNCHANGED <<fnVars, script, args, response, apps, output_file, files, console, http_gets>>

GR_TemplateAfterWrite ==
    /\ script = "competitor_research" /\ pc = "template"
    /\ files' = WriteFile(files, output_file, report)
    /\ report' = [report EXCEPT !.stage = "text"]
    /\ console' = Append(console, "report_saved")
    /\ effects' = effects \o <<"write", "print", "template">>
    /\ pc' = "finish"
    /\ UNCHANGED <<fnVars, script, args, response, apps, output_file, http_gets>>

\* generate_report: the report text
GR_Template ==
    /\ script = "competitor_research" /\ pc = "template"
    /\ report' = [report EXCEPT !.stage = "text"]
    /\ effects' = Append(effects, "template")
    /\ pc' = "write"
    /\ UNCHANGED <<fnVars, script, args, response, apps, output_file, files, console, http_gets>>

\* generate_report: the file, and the message after it
GR_Write ==
    /\ script = "competitor_research" /\ pc = "write"
    /\ files' = WriteFile(files, output_file, report)
    /\ console' = Append(console, "report_saved")
    /\ effects' = effects \o <<"write", "print">>
    /\ pc' = "finish"
    /\ UNCHANGED <<fnVars, script, args, response, apps, report, output_file, http_gets>>

CR_Finish ==
    /\ script = "competitor_research" /\ pc = "finish"
    /\ Say(<<"full_report_saved">>)
    /\ pc' = "done"
    /\ UNCHANGED <<fnVars, script, args, response, apps, report, output_file, files, http_gets>>

(* keyword_tracker.main *)

KT_Start ==
    /\ script = "keyword_tracker" /\ pc = "start"
    /\ Say(<<"researching", "category", "base_terms">>)
    /\ pc' = "generate"
    /\ UNCHANGED <<fnVars, script, args, response, apps, report, output_file, files, http_gets>>

\* generate_keyword_report: the analysis, then the report text
KT_Generate ==
    /\ script = "keyword_tracker" /\ pc = "generate"
    /\ report' = [stage |-> "text", app_name |-> args.app_name, category |-> args.category]
    /\ effects' = effects \o <<"analyze", "template">>
    /\ pc' = "save"
    /\ UNCHANGED <<fnVars, script, args, response, apps, output_file, files, console, http_gets>>

\* main: the path of the report, the file, and the closing messages
KT_Save ==
    /\ script = "keyword_tracker" /\ pc = "save"
    /\ output_file' = OutputFile(args.output, KeywordsPrefix, args.app_name)
    /\ files' = WriteFile(files, output_file', report)
    /\ console' = console \o <<"report_saved", "analyzed_terms", "field_chars">>
    /\ effects' = effects \o <<"write">> \o [i \in 1..Len(<<"report_saved", "analyzed_terms", "field_chars">>) |-> "print"]
    /\ pc' = "done"
    /\ UNCHANGED <<fnVars, script, args, response, apps, report, http_gets>>

(* metadata_optimizer.main *)

MO_Start ==
    /\ script = "metadata_optimizer" /\ pc = "start"
    /\ Say(<<"generating", "category", "version">>)
    /\ pc' = "generate"
    /\ UNCHANGED <<fnVars, script, args, response, apps, report, output_file, files, http_gets>>

\* generate_metadata_report: the analysis, then the report text
MO_Generate ==
    /\ script = "metadata_optimizer" /\ pc = "generate"
    /\ report' = [stage |-> "text", app_name |-> args.app_name, category |-> args.category]
    /\ effects' = effects \o <<"analyze", "template">>
    /\ pc' = "save"
    /\ UNCHANGED <<fnVars, script, args, response, apps, output_file, files, console, http_gets>>

\* main: the path of the report, the file, and the closing messages
MO_Save ==
    /\ script = "metadata_optimizer" /\ pc = "save"
    /\ output_file' = OutputFile(args.output, MetadataPrefix, args.app_name)
    /\ files' = WriteFile(files, output_file', report)
    /\ console' = console \o <<"package_saved", "within_limits">>
    /\ effects' = effects \o <<"write">> \o [i \in 1..Len(<<"package_saved", "within_limits">>) |-> "print"]
    /\ pc' = "done"
    /\ UNCHANGED <<fnVars, script, args, response, apps, report, http_gets>>

(* screenshot_generator.main *)

SG_Start ==
    /\ script = "screenshot_generator" /\ pc = "start"
    /\ Say(<<"generating", "category", "features">>)
    /\ pc' = "generate"
    /\ UNCHANGED <<fnVars, script, args, response, apps, report, output_file, files, http_gets>>

\* generate_report: the analysis, then the report text
SG_Generate ==
    /\ script = "screenshot_generator" /\ pc = "generate"
    /\ report' = [stage |-> "text", app_name |-> args.app_name, category |-> args.category]
    /\ effects' = effects \o <<"analyze", "template">>
    /\ pc' = "save"
    /\ UNCHANGED <<fnVars, script, args, response, apps, output_file, files, console, http_gets>>

\* main: the path of the report, the file, and the closing messages
SG_Save ==
    /\ script = "screenshot_generator" /\ pc = "save"
    /\ output_file' = OutputFile(args.output, ScreenshotsPrefix, args.app_name)
    /\ files' = WriteFile(files, output_file', report)
    /\ console' = console \o <<"strategy_saved", "concepts">>
    /\ effects' = effects \o <<"write">> \o [i \in 1..Len(<<"strategy_saved", "concepts">>) |-> "print"]
    /\ pc' = "done"
    /\ UNCHANGED <<fnVars, script, args, response, apps, report, http_gets>>

Next ==
    \/ CR_Start \/ SearchRequest \/ SearchResponse \/ CR_CheckApps
    \/ GR_Analyze \/ GR_Template \/ GR_Write \/ CR_Finish
    \/ KT_Start \/ KT_Generate \/ KT_Save
    \/ MO_Start \/ MO_Generate \/ MO_Save
    \/ SG_Start \/ SG_Generate \/ SG_Save

Spec == Init /\ [][Next]_vars

-----------------------------------------------------------------------------
(* Claims about a run                                                       *)

\* C5: a failed App Store request (network error, timeout, undecodable or
\* non-JSON body) is caught in search_app_store, which prints it and returns
\* []: no exception leaves the function, nothing is analysed or written, and
\* main ends on the no-apps message.
C5_FailureCaught ==
    (script = "competitor_research" /\ response \in Failures) =>
        /\ pc \in {"check", "done"}
        /\ apps = <<>>
        /\ console = <<"researching", "searching", "error">>
                         \o (IF pc = "done" THEN <<"no_apps">> ELSE <<>>)
        /\ report = NoRun
        /\ files = <<>>

\* a run whose response was not JSON and which has returned from main
C5_Witness ==
    /\ script = "competitor_research"
    /\ response = "JSONDecodeError"
    /\ pc = "done"

\* C6: a run of competitor_research issues exactly one HTTP GET: none before
\* search_app_store is called, one from then on, whether the request
\* succeeded or failed; the other scripts issue none.
C6_ExactlyOneGet ==
    IF script = "competitor_research"
    THEN http_gets = (IF pc \in {"start", "search"} THEN 0 ELSE 1)
    ELSE http_gets = 0

\* a finished run whose request failed
C6_Witness ==
    /\ script = "competitor_research"
    /\ pc = "done"
    /\ response \in Failures
    /\ http_gets = 1

\* C7 as stated: on every path of main, the no-apps path included, exactly
\* one file has been written when main returns.
C7_OneFilePerRun == pc = "done" => Len(files) = 1

\* C7 as amended: no run writes more than one file, and when main returns
\* exactly one has been written, except on the path of competitor_research
\* where the search returned no apps, on which none has.
C7_OneFileUnlessNoApps ==
    /\ Len(files) <= 1
    /\ pc = "done" =>
           Len(files) = (IF script = "competitor_research" /\ apps = <<>> THEN 0 ELSE 1)

\* a finished competitor_research run that found apps and wrote its report
C7_Witness ==
    /\ script = "competitor_research"
    /\ pc = "done"
    /\ apps # <<>>
    /\ Len(files) = 1

SlugOf(x) == [i \in 1..Len(x) |-> IF x[i] = " " THEN "_" ELSE LowerChar(x[i])]

PrefixOf(s) ==
    CASE s = "competitor_research"  -> CompetitorPrefix
      [] s = "keyword_tracker"      -> KeywordsPrefix
      [] s = "metadata_optimizer"   -> MetadataPrefix
      [] s = "screenshot_generator" -> ScreenshotsPrefix

SluggedArgument == IF script = "competitor_research" THEN args.category ELSE args.app_name

DefaultPath == PrefixOf(script) \o SlugOf(SluggedArgument) \o MdSuffix

\* C8 as stated: the report is written to the --output path whenever the
\* flag is given, and to prefix + slug + '.md' when it is omitted.
C8_OutputPath ==
    \A i \in 1..Len(files) :
        files[i].path = (IF args.output # <<>> THEN args.output[1] ELSE DefaultPath)

\* C8 as amended: the report is written to the --output path when the flag
\* is given with a non-empty value, and to prefix + slug + '.md' when it is
\* omitted or given as the empty string.
C8_OutputPathNonEmpty ==
    \A i \in 1..Len(files) :
        files[i].path = (IF args.output # <<>> /\ args.output[1] # <<>>
                         THEN args.output[1] ELSE DefaultPath)

\* keyword_tracker run without --output for the app name 'A b'
C8_Witness ==
    /\ script = "keyword_tracker"
    /\ args.output = <<>>
    /\ args.app_name = <<"A"," ","b">>
    /\ Len(files) = 1
    /\ files[1].path = KeywordsPrefix \o <<"a","_","b">> \o MdSuffix

StepRank(e) ==
    CASE e = "http" -> 1
      [] e = "response" -> 2
      [] e = "analyze" -> 3
      [] e = "template" -> 4
      [] e = "write" -> 5

Before(kind, i) == \E j \in 1..(i - 1) : effects[j] = kind

\* C9: the steps of a run other than console output come in the order
\* fetch, analyze, template, write; the file is written after the report
\* text is complete (and, in competitor_research, after the response has
\* been received), and only console output follows the write.
C9_PipelineOrder ==
    /\ \A i, j \in 1..Len(effects) :
           (i < j /\ effects[i] # "print" /\ effects[j] # "print")
               => StepRank(effects[i]) < StepRank(effects[j])
    /\ \A i \in 1..Len(effects) :
           effects[i] = "write" =>
               /\ \A j \in (i + 1)..Len(effects) : effects[j] = "print"
               /\ Before("template", i) /\ Before("analyze", i)
               /\ script = "competitor_research" => Before("http", i) /\ Before("response", i)
    /\ \A k \in 1..Len(files) : files[k].text.stage = "text"
    /\ Len(files) = Cardinality({i \in 1..Len(effects) : effects[i] = "write"})

\* a finished competitor_research run with its report written
C9_Witness ==
    /\ script = "competitor_research"
    /\ pc = "done"
    /\ Len(files) = 1
    /\ effects[Len(effects) - 2] = "write"

-----------------------------------------------------------------------------
(* metadata_optimizer.py: the text fields                                   *)

TitleLimit == 30
LongAppName == 28
AlternativesTried == 3
AlternativesShown == 2

UpperChar(c) == IF IsLower(c) THEN UpperLetters[IndexIn(c, LowerLetters)] ELSE c
IsLetter(c) == IsLower(c) \/ IsUpper(c)

\* s.upper()
Upper(s) == [i \in 1..Len(s) |-> UpperChar(s[i])]

\* s.title(): a letter that follows a non-letter (or starts the string) is
\* upper-cased, every other letter is lower-cased
Title(s) ==
    [i \in 1..Len(s) |->
        IF i = 1 \/ ~IsLetter(s[i - 1]) THEN UpperChar(s[i]) ELSE LowerChar(s[i])]

Dash == <<" ", "-", " ">>

\* the first keyword of the list with at most `remaining` characters,
\* as <<kw>>, or <<>> when the loop leaves best_keyword None
RECURSIVE BestKeyword(_, _)
BestKeyword(keywords, remaining) ==
    IF keywords = <<>> THEN <<>>
    ELSE IF Len(Head(keywords)) <= remaining THEN <<Head(keywords)>>
    ELSE BestKeyword(Tail(keywords), remaining)

TitleAlternativeAnyLength(alt, title) == alt # title

\* the test an alternative title passes to be listed
TitleAlternative(alt, title) == Len(alt) <= TitleLimit /\ alt # title

RECURSIVE TitleAlternatives(_, _, _)
TitleAlternatives(app_name, keywords, title) ==
    IF keywords = <<>> THEN <<>>
    ELSE LET alt == app_name \o Dash \o Title(Head(keywords))
         IN  (IF TitleAlternative(alt, title) THEN <<alt>> ELSE <<>>)
             \o TitleAlternatives(app_name, Tail(keywords), title)

optimize_title(app_name, keywords) ==
    IF Len(app_name) >= LongAppName
    THEN [title |-> Take(app_name, TitleLimit),
          length |-> Len(Take(app_name, TitleLimit)),
          strategy |-> "App name only (already long)",
          alternatives |-> <<>>]
    ELSE LET remaining == TitleLimit - Len(app_name) - Len(Dash)
             best_keyword == BestKeyword(keywords, remaining)
             \* `if best_keyword:` is false for None and for the empty string
             title == IF best_keyword # <<>> /\ best_keyword[1] # <<>>
                      THEN app_name \o Dash \o Title(best_keyword[1])
                      ELSE app_name
             alternatives == TitleAlternatives(app_name,
                                 Take(keywords, AlternativesTried), title)
         IN  [title |-> Take(title, TitleLimit),
              length |-> Len(Take(title, TitleLimit)),
              strategy |-> "App name + primary keyword",
              alternatives |-> Take(alternatives, AlternativesShown)]

SubtitleLimit == 30
SubtitleAlternativesShown == 3

\* the category_phrases table of optimize_subtitle, in the order of the dict
category_phrases == <<
    [key |-> <<"b","a","b","y">>,
     phrases |-> <<
        <<"B","a","b","y"," ","C","a","r","e"," ","M","a","d","e"," ","S","i",
          "m","p","l","e">>,
        <<"T","r","a","c","k"," ","&"," ","M","o","n","i","t","o","r"," ","B",
          "a","b","y">>,
        <<"N","e","w","b","o","r","n"," ","E","s","s","e","n","t","i","a","l",
          "s">>,
        <<"P","a","r","e","n","t"," ","H","e","l","p","e","r">>
     >>],
    [key |-> <<"h","e","a","l","t","h">>,
     phrases |-> <<
        <<"Y","o","u","r"," ","H","e","a","l","t","h"," ","C","o","m","p","a",
          "n","i","o","n">>,
        <<"T","r","a","c","k"," ","F","i","t","n","e","s","s"," ","G","o","a",
          "l","s">>,
        <<"W","e","l","l","n","e","s","s"," ","M","a","d","e"," ","E","a","s",
          "y">>,
        <<"S","t","a","y"," ","H","e","a","l","t","h","y">>
     >>],
    [key |-> <<"p","r","o","d","u","c","t","i","v","i","t","y">>,
     phrases |-> <<
        <<"G","e","t"," ","M","o","r","e"," ","D","o","n","e">>,
        <<"O","r","g","a","n","i","z","e"," ","Y","o","u","r"," ","L","i","f",
          "e">>,
        <<"T","a","s","k"," ","M","a","n","a","g","e","r">>,
        <<"S","t","a","y"," ","P","r","o","d","u","c","t","i","v","e">>
     >>],
    [key |-> <<"f","i","n","a","n","c","e">>,
     phrases |-> <<
        <<"M","a","n","a","g","e"," ","Y","o","u","r"," ","M","o","n","e","y">>,
        <<"T","r","a","c","k"," ","E","x","p","e","n","s","e","s">>,
        <<"B","u","d","g","e","t"," ","B","e","t","t","e","r">>,
        <<"S","a","v","e"," ","M","o","r","e">>
     >>],
    [key |-> <<"p","h","o","t","o">>,
     phrases |-> <<
        <<"E","d","i","t"," ","P","h","o","t","o","s"," ","B","e","a","u","t",
          "i","f","u","l","l","y">>,
        <<"P","e","r","f","e","c","t"," ","Y","o","u","r"," ","S","h","o","t",
          "s">>,
        <<"P","h","o","t","o"," ","E","n","h","a","n","c","e","r">>,
        <<"C","r","e","a","t","e"," ","M","e","m","o","r","i","e","s">>
     >>],
    [key |-> <<"s","o","c","i","a","l">>,
     phrases |-> <<
        <<"C","o","n","n","e","c","t"," ","W","i","t","h"," ","F","r","i","e",
          "n","d","s">>,
        <<"S","h","a","r","e"," ","M","o","m","e","n","t","s">>,
        <<"S","t","a","y"," ","C","o","n","n","e","c","t","e","d">>,
        <<"M","e","e","t"," ","N","e","w"," ","P","e","o","p","l","e">>
     >>],
    [key |-> <<"t","r","a","v","e","l">>,
     phrases |-> <<
        <<"E","x","p","l","o","r","e"," ","T","h","e"," ","W","o","r","l","d">>,
        <<"P","l","a","n"," ","Y","o","u","r"," ","T","r","i","p">>,
        <<"T","r","a","v","e","l"," ","S","m","a","r","t","e","r">>,
        <<"W","a","n","d","e","r","l","u","s","t">>
     >>],
    [key |-> <<"f","o","o","d">>,
     phrases |-> <<
        <<"C","o","o","k"," ","W","i","t","h"," ","C","o","n","f","i","d","e",
          "n","c","e">>,
        <<"M","e","a","l"," ","P","l","a","n","n","e","r">>,
        <<"R","e","c","i","p","e"," ","O","r","g","a","n","i","z","e","r">>,
        <<"E","a","t"," ","B","e","t","t","e","r">>
     >>],
    [key |-> <<"e","d","u","c","a","t","i","o","n">>,
     phrases |-> <<
        <<"L","e","a","r","n"," ","S","o","m","e","t","h","i","n","g"," ","N",
          "e","w">>,
        <<"S","t","u","d","y"," ","S","m","a","r","t","e","r">>,
        <<"K","n","o","w","l","e","d","g","e"," ","B","u","i","l","d","e","r">>,
        <<"S","k","i","l","l"," ","U","p">>
     >>],
    [key |-> <<"g","a","m","e">>,
     phrases |-> <<
        <<"P","l","a","y"," ","&"," ","H","a","v","e"," ","F","u","n">>,
        <<"C","h","a","l","l","e","n","g","e"," ","Y","o","u","r","s","e","l",
          "f">>,
        <<"G","a","m","e"," ","O","n">>,
        <<"L","e","v","e","l"," ","U","p">>
     >>]
>>

DefaultPhrases == <<
    <<"S","i","m","p","l","e"," ","&"," ","P","o","w","e","r","f","u","l">>,
    <<"E","a","s","y"," ","&"," ","I","n","t","u","i","t","i","v","e">>,
    <<"M","a","d","e"," ","F","o","r"," ","Y","o","u">>,
    <<"D","o"," ","M","o","r","e">>
>>

\* the phrases of the first key of the table found in category_lower
RECURSIVE PhrasesFor(_, _)
PhrasesFor(category_lower, i) ==
    IF i > Len(category_phrases) THEN DefaultPhrases
    ELSE IF Contains(category_lower, category_phrases[i].key)
         THEN category_phrases[i].phrases
         ELSE PhrasesFor(category_lower, i + 1)

\* the first phrase of at most 30 characters, else the first phrase
BestSubtitle(phrases) ==
    LET fitting == {i \in 1..Len(phrases) : Len(phrases[i]) <= SubtitleLimit}
    IN  IF fitting = {} THEN phrases[1]
        ELSE phrases[CHOOSE i \in fitting : \A j \in fitting : i <= j]

SubtitleAlternativeAnyPhrase(p, best_subtitle) == Len(p) <= SubtitleLimit

\* the test a phrase passes to be listed as an alternative
SubtitleAlternative(p, best_subtitle) == p # best_subtitle /\ Len(p) <= SubtitleLimit

RECURSIVE SubtitleAlternatives(_, _)
SubtitleAlternatives(phrases, best_subtitle) ==
    IF phrases = <<>> THEN <<>>
    ELSE (IF SubtitleAlternative(Head(phrases), best_subtitle)
          THEN <<Head(phrases)>> ELSE <<>>)
         \o SubtitleAlternatives(Tail(phrases), best_subtitle)

optimize_subtitle(app_name, category, keywords) ==
    LET category_lower == Lower(category)
        phrases == PhrasesFor(category_lower, 1)
        best_subtitle == BestSubtitle(phrases)
    IN  [subtitle |-> Take(best_subtitle, SubtitleLimit),
         length |-> Len(Take(best_subtitle, SubtitleLimit)),
         strategy |-> "Benefit-driven phrase",
         alternatives |-> Take(SubtitleAlternatives(phrases, best_subtitle),
                               SubtitleAlternativesShown)]

PromoLimit == 170

\* f"New in {app_name}: {highlight}!"
NewIn(app_name, highlight) ==
    <<"N","e","w"," ","i","n"," ">>
    \o app_name
    \o <<":"," ">>
    \o highlight
    \o <<"!">>

\* f"Just launched: {app_name} makes {category} easier than ever!"
JustLaunched(app_name, category) ==
    <<"J","u","s","t"," ","l","a","u","n","c","h","e","d",":"," ">>
    \o app_name
    \o <<" ","m","a","k","e","s"," ">>
    \o category
    \o <<" ","e","a","s","i","e","r"," ","t","h","a","n"," ","e","v","e","r","!">>

\* f"Try {app_name} - the easiest way to {category} on iPhone!"
TryIt(app_name, category) ==
    <<"T","r","y"," ">>
    \o app_name
    \o <<" ","-"," ","t","h","e"," ","e","a","s","i","e","s","t"," ","w","a","y",
      " ","t","o"," ">>
    \o category
    \o <<" ","o","n"," ","i","P","h","o","n","e","!">>

\* f"Join thousands using {app_name} for their {category} needs!"
JoinThousands(app_name, category) ==
    <<"J","o","i","n"," ","t","h","o","u","s","a","n","d","s"," ","u","s","i",
      "n","g"," ">>
    \o app_name
    \o <<" ","f","o","r"," ","t","h","e","i","r"," ">>
    \o category
    \o <<" ","n","e","e","d","s","!">>

\* f"Limited time: {app_name} Premium is 50% off!"
LimitedTime(app_name) ==
    <<"L","i","m","i","t","e","d"," ","t","i","m","e",":"," ">>
    \o app_name
    \o <<" ","P","r","e","m","i","u","m"," ","i","s"," ","5","0","%"," ","o","f",
      "f","!">>

\* f"New update: Better, faster {category} tracking!"
NewUpdate(category) ==
    <<"N","e","w"," ","u","p","d","a","t","e",":"," ","B","e","t","t","e","r",
      ","," ","f","a","s","t","e","r"," ">>
    \o category
    \o <<" ","t","r","a","c","k","i","n","g","!">>

\* f"Download {app_name} today!"
DownloadToday(app_name) ==
    <<"D","o","w","n","l","o","a","d"," ">>
    \o app_name
    \o <<" ","t","o","d","a","y","!">>

\* [t for t in templates if len(t) <= 170] (no template is empty)
RECURSIVE FittingTemplates(_)
FittingTemplates(templates) ==
    IF templates = <<>> THEN <<>>
    ELSE (IF Len(Head(templates)) <= PromoLimit THEN <<Head(templates)>> ELSE <<>>)
         \o FittingTemplates(Tail(templates))

\* the loop that keeps the first longest template of at most 170 characters
RECURSIVE LongestTemplate(_, _, _)
LongestTemplate(templates, i, best) ==
    IF i > Len(templates) THEN best
    ELSE LET t == templates[i]
         IN  LongestTemplate(templates, i + 1,
                 IF Len(t) <= PromoLimit /\ Len(t) > Len(best) THEN t ELSE best)

PromoNotCut(best) == best

\* best[:170]
PromoCut(best) == Take(best, PromoLimit)

\* highlight is <<>> for None and <<h>> for the string h; `if highlight`
\* is false for None and for the empty string
generate_promotional_text(app_name, category, highlight) ==
    LET candidates ==
            (IF highlight # <<>> /\ highlight[1] # <<>>
             THEN <<NewIn(app_name, highlight[1])>> ELSE <<>>)
            \o <<JustLaunched(app_name, category), TryIt(app_name, category),
                 JoinThousands(app_name, category), LimitedTime(app_name),
                 NewUpdate(category)>>
        fitting == FittingTemplates(candidates)
        templates == IF fitting = <<>> THEN <<DownloadToday(app_name)>> ELSE fitting
        best == LongestTemplate(templates, 1, templates[1])
    IN  [promotional_text |-> PromoCut(best),
         length |-> Len(PromoCut(best)),
         alternatives |-> Take(Drop(templates, 1), 3),
         strategy |-> "Time-sensitive or feature highlight"]

DescriptionLimit == 4000
FeaturesShown == 8

\* one-character stand-ins for the characters U+2022 and U+2713
Bullet == "bullet"
CheckMark == "check"

\* s.replace(c, '')
Remove(s, c) == SelectSeq(s, LAMBDA x : x # c)

\* '\n'.join(items)
RECURSIVE JoinLines(_)
JoinLines(items) ==
    IF items = <<>> THEN <<>>
    ELSE IF Len(items) = 1 THEN items[1]
    ELSE items[1] \o <<"\n">> \o JoinLines(Tail(items))

\* f"\u2022 {f.title()} - Quick and easy"
FeatureLine(f) ==
    <<Bullet," ">>
    \o Title(f)
    \o <<" ","-"," ","Q","u","i","c","k"," ","a","n","d"," ","e","a","s","y">>

\* openings['baby']
Opening_baby(app_name) ==
    <<"*","*","T","h","e"," ">>
    \o app_name
    \o <<" ","a","p","p"," ","h","e","l","p","s"," ","p","a","r","e","n","t",
         "s"," ","t","r","a","c","k"," ","t","h","e","i","r"," ","b","a","b",
         "y","'","s"," ","d","a","i","l","y"," ","a","c","t","i","v","i","t",
         "i","e","s"," ","w","i","t","h"," ","e","a","s","e",".","*","*","\n",
         "\n","F","r","o","m"," ","f","e","e","d","i","n","g","s"," ","a","n",
         "d"," ","d","i","a","p","e","r","s"," ","t","o"," ","s","l","e","e",
         "p"," ","p","a","t","t","e","r","n","s"," ","a","n","d"," ","m","i",
         "l","e","s","t","o","n","e","s",","," ">>
    \o app_name
    \o <<" ","m","a","k","e","s"," ","i","t"," ","s","i","m","p","l","e"," ",
         "t","o"," ","m","o","n","i","t","o","r"," ","y","o","u","r"," ","l",
         "i","t","t","l","e"," ","o","n","e","'","s"," ","d","e","v","e","l",
         "o","p","m","e","n","t","."," ","D","e","s","i","g","n","e","d"," ",
         "w","i","t","h"," ","l","o","v","e"," ","b","y"," ","p","a","r","e",
         "n","t","s",","," ","f","o","r"," ","p","a","r","e","n","t","s",".">>

\* openings['health']
Opening_health(app_name) ==
    <<"*","*">>
    \o app_name
    \o <<" ","i","s"," ","y","o","u","r"," ","p","e","r","s","o","n","a","l",
         " ","h","e","a","l","t","h"," ","c","o","m","p","a","n","i","o","n",
         ","," ","h","e","l","p","i","n","g"," ","y","o","u"," ","a","c","h",
         "i","e","v","e"," ","y","o","u","r"," ","w","e","l","l","n","e","s",
         "s"," ","g","o","a","l","s",".","*","*","\n","\n","T","r","a","c",
         "k"," ","y","o","u","r"," ","a","c","t","i","v","i","t","i","e","s",
         ","," ","m","o","n","i","t","o","r"," ","y","o","u","r"," ","p","r",
         "o","g","r","e","s","s",","," ","a","n","d"," ","s","t","a","y"," ",
         "m","o","t","i","v","a","t","e","d"," ","w","i","t","h"," ","p","o",
         "w","e","r","f","u","l"," ","i","n","s","i","g","h","t","s","."," ",
         "W","h","e","t","h","e","r"," ","y","o","u","'","r","e"," ","j","u",
         "s","t"," ","s","t","a","r","t","i","n","g"," ","y","o","u","r"," ",
         "f","i","t","n","e","s","s"," ","j","o","u","r","n","e","y"," ","o",
         "r"," ","t","r","a","i","n","i","n","g"," ","f","o","r"," ","y","o",
         "u","r"," ","n","e","x","t"," ","e","v","e","n","t",","," ">>
    \o app_name
    \o <<" ","h","a","s"," ","y","o","u"," ","c","o","v","e","r","e","d",".">>

\* openings['productivity']
Opening_productivity(app_name) ==
    <<"*","*","S","t","a","y"," ","o","r","g","a","n","i","z","e","d"," ",
         "a","n","d"," ","g","e","t"," ","m","o","r","e"," ","d","o","n","e",
         " ","w","i","t","h"," ">>
    \o app_name
    \o <<".","*","*","\n","\n">>
    \o app_name
    \o <<" ","b","r","i","n","g","s"," ","a","l","l"," ","y","o","u","r"," ",
         "t","a","s","k","s",","," ","s","c","h","e","d","u","l","e","s",",",
         " ","a","n","d"," ","p","r","o","j","e","c","t","s"," ","t","o","g",
         "e","t","h","e","r"," ","i","n"," ","o","n","e"," ","b","e","a","u",
         "t","i","f","u","l",","," ","i","n","t","u","i","t","i","v","e"," ",
         "a","p","p","."," ","S","t","o","p"," ","j","u","g","g","l","i","n",
         "g"," ","m","u","l","t","i","p","l","e"," ","t","o","o","l","s"," ",
         "a","n","d"," ","s","t","a","r","t"," ","f","o","c","u","s","i","n",
         "g"," ","o","n"," ","w","h","a","t"," ","m","a","t","t","e","r","s",
         ".">>

\* openings['finance']
Opening_finance(app_name) ==
    <<"*","*","T","a","k","e"," ","c","o","n","t","r","o","l"," ","o","f",
         " ","y","o","u","r"," ","f","i","n","a","n","c","e","s"," ","w","i",
         "t","h"," ">>
    \o app_name
    \o <<".","*","*","\n","\n","T","r","a","c","k"," ","e","x","p","e","n",
         "s","e","s",","," ","m","o","n","i","t","o","r"," ","b","u","d","g",
         "e","t","s",","," ","a","n","d"," ","a","c","h","i","e","v","e"," ",
         "y","o","u","r"," ","s","a","v","i","n","g","s"," ","g","o","a","l",
         "s"," ","w","i","t","h"," ","e","a","s","e","."," ">>
    \o app_name
    \o <<" ","m","a","k","e","s"," ","m","o","n","e","y"," ","m","a","n","a",
         "g","e","m","e","n","t"," ","s","i","m","p","l","e",","," ","s","e",
         "c","u","r","e",","," ","a","n","d"," ","e","v","e","n"," ","e","n",
         "j","o","y","a","b","l","e",".">>

\* the openings dict, in its order
openings(app_name) == <<
    [key |-> <<"b","a","b","y">>, text |-> Opening_baby(app_name)],
    [key |-> <<"h","e","a","l","t","h">>, text |-> Opening_health(app_name)],
    [key |-> <<"p","r","o","d","u","c","t","i","v","i","t","y">>, text |-> Opening_productivity(app_name)],
    [key |-> <<"f","i","n","a","n","c","e">>, text |-> Opening_finance(app_name)]
>>

\* the description f-string
DescriptionText(opening, feature_lines, app_name) ==
    opening
    \o <<"\n","\n","*","*","K","E","Y"," ","F","E","A","T","U","R","E","S",
         ":","*","*","\n">>
    \o feature_lines
    \o <<"\n","\n","*","*","W","H","Y"," ","U","S","E","R","S"," ","L","O",
         "V","E"," ">>
    \o Upper(app_name)
    \o <<":","*","*","\n",CheckMark," ","I","n","t","u","i","t","i","v","e",
         " ","d","e","s","i","g","n"," ","-"," ","n","o"," ","l","e","a","r",
         "n","i","n","g"," ","c","u","r","v","e","\n",CheckMark," ","P","o",
         "w","e","r","f","u","l"," ","f","e","a","t","u","r","e","s"," ","t",
         "h","a","t"," ","j","u","s","t"," ","w","o","r","k","\n",CheckMark,
         " ","S","y","n","c"," ","a","c","r","o","s","s"," ","a","l","l"," ",
         "y","o","u","r"," ","d","e","v","i","c","e","s","\n",CheckMark," ",
         "R","e","g","u","l","a","r"," ","u","p","d","a","t","e","s"," ","w",
         "i","t","h"," ","n","e","w"," ","f","e","a","t","u","r","e","s","\n",
         CheckMark," ","P","r","i","v","a","t","e"," ","a","n","d"," ","s",
         "e","c","u","r","e"," ","-"," ","y","o","u","r"," ","d","a","t","a",
         " ","s","t","a","y","s"," ","y","o","u","r","s","\n","\n","*","*",
         "S","U","P","P","O","R","T",":","*","*","\n","W","e","'","d"," ","l",
         "o","v","e"," ","t","o"," ","h","e","a","r"," ","f","r","o","m"," ",
         "y","o","u","!"," ","C","o","n","t","a","c","t"," ","o","u","r"," ",
         "f","r","i","e","n","d","l","y"," ","s","u","p","p","o","r","t"," ",
         "t","e","a","m"," ","a","t"," ","s","u","p","p","o","r","t","@">>
    \o Remove(Lower(app_name), " ")
    \o <<".","c","o","m","\n","\n","*","*","P","R","E","M","I","U","M"," ",
         "F","E","A","T","U","R","E","S",":","*","*","\n","U","p","g","r","a",
         "d","e"," ","t","o"," ","P","r","e","m","i","u","m"," ","f","o","r",
         " ","u","n","l","i","m","i","t","e","d"," ","a","c","c","e","s","s",
         ","," ","a","d","v","a","n","c","e","d"," ","f","e","a","t","u","r",
         "e","s",","," ","c","l","o","u","d"," ","b","a","c","k","u","p",",",
         " ","a","n","d"," ","p","r","i","o","r","i","t","y"," ","s","u","p",
         "p","o","r","t",".","\n","\n","D","o","w","n","l","o","a","d"," ">>
    \o app_name
    \o <<" ","t","o","d","a","y"," ","a","n","d"," ","j","o","i","n"," ","t",
         "h","o","u","s","a","n","d","s"," ","o","f"," ","h","a","p","p","y",
         " ","u","s","e","r","s","!","\n","\n","-","-","-","\n","\n","*","*",
         "P","r","i","v","a","c","y"," ","P","o","l","i","c","y",":","*","*",
         " ","h","t","t","p","s",":","/","/">>
    \o Remove(Lower(app_name), " ")
    \o <<".","c","o","m","/","p","r","i","v","a","c","y","\n","*","*","T","e",
         "r","m","s"," ","o","f"," ","S","e","r","v","i","c","e",":","*","*",
         " ","h","t","t","p","s",":","/","/">>
    \o Remove(Lower(app_name), " ")
    \o <<".","c","o","m","/","t","e","r","m","s","\n">>

\* the opening of the first key found in category_lower, else that of 'baby'
RECURSIVE OpeningFor(_, _, _)
OpeningFor(texts, category_lower, i) ==
    IF i > Len(texts) THEN texts[1].text
    ELSE IF Contains(category_lower, texts[i].key) THEN texts[i].text
    ELSE OpeningFor(texts, category_lower, i + 1)

generate_description(app_name, category, features) ==
    LET shown == Take(features, FeaturesShown)
        feature_lines == JoinLines([i \in 1..Len(shown) |-> FeatureLine(shown[i])])
        opening == OpeningFor(openings(app_name), Lower(category), 1)
        description == DescriptionText(opening, feature_lines, app_name)
    IN  [description |-> description,
         length |-> Len(description),
         remaining |-> DescriptionLimit - Len(description),
         strategy |-> "Structured for readability with clear benefits"]

-----------------------------------------------------------------------------
(* Calls of the text-field functions of metadata_optimizer                  *)

TitleNamePool == {<<"x">>, Rep("n", 20), Rep("n", 27), Rep("n", 28), Rep("n", 31)}
TitleKeywordPool == {<<>>, <<"a">>, <<"A">>, <<"a", " ", "b">>, Rep("k", 7), Rep("m", 8)}

TitleCalls ==
    [fn : {"optimize_title"},
     app_name : TitleNamePool,
     keywords : Lists(TitleKeywordPool, 0, MaxKeywords)]

OptimizeTitle ==
    /\ call.fn = "optimize_title"
    /\ Len(ret) < MaxRuns
    /\ ret' = Append(ret, optimize_title(call.app_name, call.keywords))
    /\ UNCHANGED <<call, heap, runVars>>

\* C11: the 'title' optimize_title returns has at most 30 characters and
\* 'length' is its length; there are at most 2 'alternatives', each of at
\* most 30 characters and each different from the title.
C11_TitleWithinLimit ==
    call.fn = "optimize_title" =>
        \A i \in 1..Len(ret) :
            /\ Len(ret[i].title) <= 30
            /\ ret[i].length = Len(ret[i].title)
            /\ Len(ret[i].alternatives) <= 2
            /\ \A j \in 1..Len(ret[i].alternatives) :
                   /\ Len(ret[i].alternatives[j]) <= 30
                   /\ ret[i].alternatives[j] # ret[i].title

\* a 20-character name takes a 7-character keyword for a title of exactly
\* 30 characters, and an 8-character keyword was tried as an alternative
C11_Witness ==
    /\ call.fn = "optimize_title"
    /\ ret # <<>>
    /\ Len(call.app_name) = 20
    /\ ret[1].length = 30
    /\ \E k \in 1..Len(call.keywords) : k <= 3 /\ Len(call.keywords[k]) = 8
    /\ Len(ret[1].alternatives) = 1

\* every key of the table, a category naming two keys, one in capitals,
\* one that only contains a key, and categories that match none
SubtitleCategoryPool ==
    {category_phrases[i].key : i \in 1..Len(category_phrases)}
    \cup {<<"h","e","a","l","t","h"," ","b","a","b","y">>,
          <<"G","A","M","E","S">>, <<"s","e","a","f","o","o","d">>,
          <<"m","u","s","i","c">>, <<>>}

SubtitleCalls ==
    [fn : {"optimize_subtitle"},
     app_name : {<<"x">>, Rep("n", 31)},
     category : SubtitleCategoryPool,
     keywords : {<<>>, <<T_a>>}]

OptimizeSubtitle ==
    /\ call.fn = "optimize_subtitle"
    /\ Len(ret) < MaxRuns
    /\ ret' = Append(ret, optimize_subtitle(call.app_name, call.category, call.keywords))
    /\ UNCHANGED <<call, heap, runVars>>

\* C12: the 'subtitle' optimize_subtitle returns has at most 30 characters
\* and 'length' is its length; there are at most 3 'alternatives', each of
\* at most 30 characters and none equal to the subtitle.
C12_SubtitleWithinLimit ==
    call.fn = "optimize_subtitle" =>
        \A i \in 1..Len(ret) :
            /\ Len(ret[i].subtitle) <= 30
            /\ ret[i].length = Len(ret[i].subtitle)
            /\ Len(ret[i].alternatives) <= 3
            /\ \A j \in 1..Len(ret[i].alternatives) :
                   /\ Len(ret[i].alternatives[j]) <= 30
                   /\ ret[i].alternatives[j] # ret[i].subtitle

\* a category naming both 'health' and 'baby' gets the phrases of 'baby',
\* the first key of the table, and the three other phrases as alternatives
C12_Witness ==
    /\ call.fn = "optimize_subtitle"
    /\ ret # <<>>
    /\ call.category = <<"h","e","a","l","t","h"," ","b","a","b","y">>
    /\ ret[1].subtitle = category_phrases[1].phrases[1]
    /\ ret[1].length = 21
    /\ Len(ret[1].alternatives) = 3

\* names for which 'Limited time' has 170 and 171 characters, categories
\* for which 'New update' has 170 and more, highlights absent, empty,
\* short and too long
PromoCalls ==
    [fn : {"generate_promotional_text"},
     app_name : {<<"x">>, Rep("n", 136), Rep("n", 137), Rep("n", 200)},
     category : {<<"c">>, Rep("g", 133), Rep("g", 200)},
     highlight : {<<>>, << <<>> >>, << <<"h">> >>, << Rep("h", 200) >>}]

GeneratePromotionalText ==
    /\ call.fn = "generate_promotional_text"
    /\ Len(ret) < MaxRuns
    /\ ret' = Append(ret, generate_promotional_text(call.app_name, call.category,
                                                    call.highlight))
    /\ UNCHANGED <<call, heap, runVars>>

\* C13: the 'promotional_text' generate_promotional_text returns has at most
\* 170 characters and 'length' is its length, whatever the lengths of the
\* name, the category and the highlight, the fallback text included.
C13_PromoWithinLimit ==
    call.fn = "generate_promotional_text" =>
        \A i \in 1..Len(ret) :
            /\ Len(ret[i].promotional_text) <= 170
            /\ ret[i].length = Len(ret[i].promotional_text)

\* no template fits a 200-character name and category, and the fallback
\* 'Download <app_name> today!' of 216 characters is returned cut to 170
C13_Witness ==
    /\ call.fn = "generate_promotional_text"
    /\ ret # <<>>
    /\ Len(call.app_name) = 200
    /\ Len(call.category) = 200
    /\ ret[1].alternatives = <<>>
    /\ ret[1].length = 170
    /\ SubSeq(ret[1].promotional_text, 1, 9) = <<"D","o","w","n","l","o","a","d"," ">>

F_sleep == <<"s","l","e","e","p"," ","l","o","g">>

\* a short name and one of 600 characters; no feature, few, more than the
\* eight that are shown, and one of 3500 characters
DescriptionCalls ==
    [fn : {"generate_description"},
     app_name : {<<"M","y"," ","A","p","p">>, Rep("n", 600)},
     category : {<<"b","a","b","y">>, <<"H","e","a","l","t","h">>,
                 <<"p","r","o","d","u","c","t","i","v","i","t","y">>,
                 <<"f","i","n","a","n","c","e">>, <<"m","u","s","i","c">>},
     features : {<<>>, <<T_a>>, <<F_sleep, T_a>>, [i \in 1..9 |-> F_sleep],
                 <<Rep("f", 3500)>>}]

GenerateDescription ==
    /\ call.fn = "generate_description"
    /\ Len(ret) < MaxRuns
    /\ ret' = Append(ret, generate_description(call.app_name, call.category,
                                               call.features))
    /\ UNCHANGED <<call, heap, runVars>>

\* C14: the description generate_description returns has at most 4000
\* characters and its 'remaining' is never negative, for every app name,
\* category and feature list.
C14_DescriptionWithinLimit ==
    call.fn = "generate_description" =>
        \A i \in 1..Len(ret) :
            /\ Len(ret[i].description) <= 4000
            /\ ret[i].length <= 4000
            /\ ret[i].remaining >= 0

-----------------------------------------------------------------------------
(* The specification of the text-field calls                                *)

InitText ==
    /\ call \in TitleCalls \cup SubtitleCalls \cup PromoCalls \cup DescriptionCalls
    /\ ret = <<>>
    /\ heap = ModuleHeap
    /\ IdleRun

NextText ==
    \/ OptimizeTitle
    \/ OptimizeSubtitle
    \/ GeneratePromotionalText
    \/ GenerateDescription

SpecText == InitText /\ [][NextText]_vars

-----------------------------------------------------------------------------
(* The keyword field and the words of title and subtitle                    *)

\* s.split(sep) for a one-character separator
RECURSIVE SplitOn(_, _)
SplitOn(s, sep) ==
    LET at == {i \in 1..Len(s) : s[i] = sep}
    IN  IF at = {} THEN <<s>>
        ELSE LET first == CHOOSE i \in at : \A j \in at : i <= j
             IN  <<SubSeq(s, 1, first - 1)>> \o SplitOn(SubSeq(s, first + 1, Len(s)), sep)

\* the keywords of a result of optimize_keywords, read back from its field
FieldKeywords(result) ==
    IF result.count = 0 THEN <<>> ELSE SplitOn(result.keywords, ",")

\* C15: no keyword of the field optimize_keywords returns equals, contains
\* or is contained in a whitespace-separated, lower-cased word of the title
\* or of the subtitle.
C15_NoTitleWordRepeated ==
    call.fn = "optimize_keywords" =>
        \A i \in 1..Len(ret) :
            LET words == Range(Split(Lower(call.title)))
                             \cup Range(Split(Lower(call.subtitle)))
                selected == FieldKeywords(ret[i])
            IN  \A j \in 1..Len(selected) : \A w \in words :
                    /\ selected[j] # w
                    /\ ~Contains(selected[j], w)
                    /\ ~Contains(w, selected[j])

\* with title 'Ab' and subtitle 'b', the keyword 'a' (inside 'ab') and the
\* keyword 'bc' (around 'b') are left out and a third keyword is selected
C15_Witness ==
    /\ call.fn = "optimize_keywords"
    /\ ret # <<>>
    /\ call.title = <<"A","b">>
    /\ call.subtitle = <<"b">>
    /\ \E k \in 1..Len(call.keywords) : call.keywords[k] = T_a
    /\ \E k \in 1..Len(call.keywords) : call.keywords[k] = <<"b","c">>
    /\ ret[1].count = 1
    /\ ret[1].length = 50

-----------------------------------------------------------------------------
(* The apps the competitor report analyses                                  *)

Min(a, b) == IF a <= b THEN a ELSE b

\* C17: the competitor report analyses as many apps as --limit asked for, or
\* as many as the search returned if fewer: 'Apps Analyzed' and the number
\* of apps in the pricing statistics are that number.
C17_AnalyzedCountIsLimit ==
    (script = "competitor_research" /\ report # NoRun) =>
        /\ report.apps_analyzed = Min(args.limit, Len(apps))
        /\ report.pricing_analysis.total_analyzed = Min(args.limit, Len(apps))

-----------------------------------------------------------------------------
(* The greedy fill of optimize_keywords_for_field                           *)

\* the order in which optimize_keywords_for_field visits the keywords
FieldOrder(keywords) ==
    Sorted(keywords, [j \in 1..Len(keywords) |-> FieldSortKey(keywords[j])])

\* C18: the field optimize_keywords_for_field returns is the longest prefix
\* of the keywords in ascending length order whose comma-joined length is at
\* most max_chars, and the keywords of the field are in non-decreasing
\* length order.
C18_LongestFittingPrefix ==
    call.fn = "optimize_keywords_for_field" =>
        \A i \in 1..Len(ret) :
            LET order == FieldOrder(call.keywords)
                Fits(n) == Len(Join(Take(order, n))) <= call.max_chars
                field == SplitOn(ret[i], ",")
            IN  /\ \A j \in 1..(Len(order) - 1) : Len(order[j]) <= Len(order[j + 1])
                /\ \E n \in 0..Len(order) :
                       /\ ret[i] = Join(Take(order, n))
                       /\ Fits(n)
                       /\ \A m \in (n + 1)..Len(order) : ~Fits(m)
                /\ \A j \in 1..(Len(field) - 1) : Len(field[j]) <= Len(field[j + 1])

\* the keywords arrive longest first; the field holds the two short ones in
\* ascending length and stops before the one of 101 characters
C18_Witness ==
    /\ call.fn = "optimize_keywords_for_field"
    /\ ret # <<>>
    /\ call.keywords = <<Rep("e", 101), T_ab, T_a>>
    /\ call.max_chars = 100
    /\ ret[1] = <<"a", ",", "a", "b">>

-----------------------------------------------------------------------------
(* Both packers together                                                    *)

InitPack ==
    /\ call \in FieldCalls \cup KeywordsCalls
    /\ ret = <<>>
    /\ heap = ModuleHeap
    /\ IdleRun

NextPack == OptimizeKeywordsForField \/ OptimizeKeywords

SpecPack == InitPack /\ [][NextPack]_vars

\* how often k occurs in a list
Occurrences(items, k) == Cardinality({j \in 1..Len(items) : items[j] = k})

\* the candidates that occur more often among the candidates than in the field
LeftOut(candidates, selected) ==
    {k \in Range(candidates) : Occurrences(candidates, k) > Occurrences(selected, k)}

\* would k, with a comma if the field has a keyword already, still fit?
CouldAppend(field, selected, k, limit) ==
    Len(field) + Len(k) + (IF selected # <<>> THEN 1 ELSE 0) <= limit

\* the keywords of a field optimize_keywords_for_field returned: an empty
\* field holds the empty keyword if there was one to take, else nothing
FieldSelected(field, keywords) ==
    IF field = <<>> /\ \A j \in 1..Len(keywords) : keywords[j] # <<>>
    THEN <<>>
    ELSE SplitOn(field, ",")

\* C19: the packers are maximal: no keyword left out of the field that
\* optimize_keywords_for_field returns could be appended to it, with its
\* comma, within max_chars, and no available keyword left out of the field
\* that optimize_keywords returns could be appended within 100 characters.
C19_PackersMaximal ==
    /\ call.fn = "optimize_keywords_for_field" =>
           \A i \in 1..Len(ret) :
               LET selected == FieldSelected(ret[i], call.keywords)
               IN  \A k \in LeftOut(call.keywords, selected) :
                       ~CouldAppend(ret[i], selected, k, call.max_chars)
    /\ call.fn = "optimize_keywords" =>
           \A i \in 1..Len(ret) :
               LET used_words == Range(Split(Lower(call.title)))
                                     \cup Range(Split(Lower(call.subtitle)))
                   candidates == AvailableKeywords(call.keywords, used_words)
                   selected == FieldKeywords(ret[i])
               IN  \A k \in LeftOut(candidates, selected) :
                       ~CouldAppend(ret[i].keywords, selected, k, 100)

\* the field 'a' plus a keyword of 49 characters has 51 characters, and the
\* keyword of 50 characters left out would bring it to 102
C19_Witness ==
    /\ call.fn = "optimize_keywords_for_field"
    /\ ret # <<>>
    /\ call.max_chars = 100
    /\ Len(ret[1]) = 51
    /\ \E j \in 1..Len(call.keywords) : Len(call.keywords[j]) = 50
    /\ LeftOut(call.keywords, FieldSelected(ret[1], call.keywords)) # {}

-----------------------------------------------------------------------------
(* The unused keywords of optimize_keywords                                 *)

\* the available keywords that the packing loop passed over, in order
RECURSIVE PassedOver(_, _, _, _)
PassedOver(available_keywords, i, count, current_length) ==
    IF i > Len(available_keywords) THEN <<>>
    ELSE LET kw == available_keywords[i]
             separator == IF count > 0 THEN 1 ELSE 0
         IN  IF current_length + Len(kw) + separator <= 100
             THEN PassedOver(available_keywords, i + 1, count + 1,
                             current_length + Len(kw) + separator)
             ELSE <<kw>> \o PassedOver(available_keywords, i + 1, count, current_length)

\* C20: 'unused_keywords' of optimize_keywords has no entry in common with
\* the keywords of the field and is the first (up to 10) available keywords
\* that were left out of the field.
C20_UnusedAreLeftOut ==
    call.fn = "optimize_keywords" =>
        \A i \in 1..Len(ret) :
            LET used_words == Range(Split(Lower(call.title)))
                                  \cup Range(Split(Lower(call.subtitle)))
                candidates == AvailableKeywords(call.keywords, used_words)
                selected == FieldKeywords(ret[i])
            IN  /\ Range(ret[i].unused_keywords) \cap Range(selected) = {}
                /\ ret[i].unused_keywords = Take(PassedOver(candidates, 1, 0, 0), 10)

-----------------------------------------------------------------------------
(* The calls as changes of the heap                                         *)
(* Every list, dict or set a function builds is a new object named after    *)
(* the function and the variable; a statement that changes an object in     *)
(* place (append, extend, sort, add, update) stores into the object its     *)
(* variable names.  Strings and numbers are values, not objects.  The heap  *)
(* after each statement is bound in turn (h1, h2, ...): the statements of a *)
(* function run one after the other, each on the heap the one before left.  *)

\* the one element of a set of one
The(S) == CHOOSE x \in S : TRUE

\* a new object: a literal, a comprehension, a slice, a concatenation,
\* sorted(...) or list(...)
New(h, id, value) == (id :> value) @@ h

\* a change in place of the object named id
Store(h, id, value) == [h EXCEPT ![id] = value]

\* return to a caller that reaches the objects of `caller`: the locals of the
\* callee are gone
Return(h, caller) == [id \in DOMAIN caller |-> h[id]]

\* analyze_pricing(apps): prices and price_ranges are new objects
analyze_pricing_heap(h, app_list) ==
    LET s1 == {New(h, "analyze_pricing.prices",
                   [i \in 1..Len(h[app_list]) |-> GetPrice(h[app_list][i])])}
        s2 == {New(h1, "analyze_pricing.price_ranges",
                   analyze_pricing(h1[app_list]).price_distribution) : h1 \in s1}
    IN  The({Return(h2, h) : h2 \in s2})

\* analyze_ratings(apps): ratings and review_counts are new lists of the
\* truthy values
analyze_ratings_heap(h, app_list) ==
    LET \* app.get(key, 0)
        GetOr0(app, key) == IF key \in DOMAIN app THEN app[key] ELSE 0
        values(key) == SelectSeq([i \in 1..Len(h[app_list]) |-> GetOr0(h[app_list][i], key)],
                                 LAMBDA v : v # 0)
        s1 == {New(h, "analyze_ratings.ratings", values("averageUserRating"))}
        s2 == {New(h1, "analyze_ratings.review_counts", values("userRatingCount")) :
                  h1 \in s1}
    IN  The({Return(h2, h) : h2 \in s2})

GapApps == 10

\* the gaps generate_gap_analysis appends, each named by its title
GapsFound(all_descriptions, prices) ==
    LET W_dark_mode == <<"d","a","r","k"," ","m","o","d","e">>
        W_darkmode == <<"d","a","r","k","m","o","d","e">>
        W_widget == <<"w","i","d","g","e","t">>
        W_siri == <<"s","i","r","i">>
        W_apple_watch == <<"a","p","p","l","e"," ","w","a","t","c","h">>
        W_applewatch == <<"a","p","p","l","e","w","a","t","c","h">>
        W_sync == <<"s","y","n","c">>
        W_icloud == <<"i","c","l","o","u","d">>
        W_export == <<"e","x","p","o","r","t">>
        W_family == <<"f","a","m","i","l","y">>
        W_share == <<"s","h","a","r","e">>
        Has(w) == Contains(all_descriptions, w)
    IN  (IF ~Has(W_dark_mode) /\ ~Has(W_darkmode) THEN <<"Dark Mode">> ELSE <<>>)
        \o (IF ~Has(W_widget) THEN <<"iOS Widgets">> ELSE <<>>)
        \o (IF ~Has(W_siri) THEN <<"Siri Shortcuts">> ELSE <<>>)
        \o (IF ~Has(W_apple_watch) /\ ~Has(W_applewatch) THEN <<"Apple Watch">> ELSE <<>>)
        \o (IF ~Has(W_sync) \/ ~Has(W_icloud) THEN <<"Cloud Sync">> ELSE <<>>)
        \o (IF ~Has(W_export) THEN <<"Data Export">> ELSE <<>>)
        \o (IF ~Has(W_family) /\ ~Has(W_share) THEN <<"Family Sharing">> ELSE <<>>)
        \o (IF \A i \in 1..Len(prices) : i <= GapApps => prices[i] = 0
            THEN <<"Premium Option">> ELSE <<>>)

\* generate_gap_analysis(apps, category): gaps is a new list the appends go
\* to; the slice apps[:10], the list of descriptions and prices are new
generate_gap_analysis_heap(h, app_list, category) ==
    LET \* ' '.join(items)
        RECURSIVE JoinSpaces(_)
        JoinSpaces(items) ==
            IF items = <<>> THEN <<>>
            ELSE IF Len(items) = 1 THEN items[1]
            ELSE items[1] \o <<" ">> \o JoinSpaces(Tail(items))
        \* app.get('description', '')
        GetDescription(app) == IF "description" \in DOMAIN app THEN app.description ELSE <<>>
        top(hh) == hh["generate_gap_analysis.apps[:10]"]
        all_descriptions(hh) == JoinSpaces(hh["generate_gap_analysis.descriptions"])
        s1 == {New(h, "generate_gap_analysis.gaps", <<>>)}
        s2 == {New(h1, "generate_gap_analysis.apps[:10]", Take(h1[app_list], GapApps)) :
                  h1 \in s1}
        s3 == {New(h2, "generate_gap_analysis.descriptions",
                   [i \in 1..Len(top(h2)) |-> Lower(GetDescription(top(h2)[i]))]) :
                  h2 \in s2}
        s4 == {New(h3, "generate_gap_analysis.prices",
                   [i \in 1..Len(h3[app_list]) |-> GetPrice(h3[app_list][i])]) :
                  h3 \in s3}
        s5 == {Store(h4, "generate_gap_analysis.gaps",
                     h4["generate_gap_analysis.gaps"]
                     \o GapsFound(all_descriptions(h4),
                                  h4["generate_gap_analysis.prices"])) :
                  h4 \in s4}
    IN  The({Return(h5, h) : h5 \in s5})

\* keywords.sort(key=...): the caller's list is put in order
SortedInPlace(h, id, keywords) ==
    New(Store(h, keywords, FieldOrder(h[keywords])), id,
        FieldOrder(h[keywords]))

\* sorted(keywords, key=...): a new list
SortedCopy(h, id, keywords) == New(h, id, FieldOrder(h[keywords]))

\* optimize_keywords_for_field(keywords, max_chars): selected and
\* sorted_keywords are new lists, the appends go to selected
optimize_keywords_for_field_heap(h, keywords, max_chars) ==
    LET s1 == {New(h, "optimize_keywords_for_field.selected", <<>>)}
        s2 == {SortedCopy(h1, "optimize_keywords_for_field.sorted_keywords", keywords) :
                  h1 \in s1}
        s3 == {Store(h2, "optimize_keywords_for_field.selected",
                     FieldLoop(h2["optimize_keywords_for_field.sorted_keywords"],
                               1, h2["optimize_keywords_for_field.selected"], 0,
                               max_chars)) :
                  h2 \in s2}
    IN  The({Return(h3, h) : h3 \in s3})

\* optimize_keywords(keywords, title, subtitle): used_words is a new set,
\* available_keywords and selected are new lists
optimize_keywords_heap(h, keywords, title, subtitle) ==
    LET s1 == {New(h, "optimize_keywords.used_words", {})}
        s2 == {Store(h1, "optimize_keywords.used_words",
                     h1["optimize_keywords.used_words"]
                     \cup Range(Split(Lower(title))) \cup Range(Split(Lower(subtitle)))) :
                  h1 \in s1}
        s3 == {New(h2, "optimize_keywords.available_keywords", <<>>) : h2 \in s2}
        s4 == {Store(h3, "optimize_keywords.available_keywords",
                     h3["optimize_keywords.available_keywords"]
                     \o AvailableKeywords(h3[keywords],
                                          h3["optimize_keywords.used_words"])) :
                  h3 \in s3}
        s5 == {New(h4, "optimize_keywords.selected", <<>>) : h4 \in s4}
        s6 == {Store(h5, "optimize_keywords.selected",
                     SelectLoop(h5["optimize_keywords.available_keywords"], 1,
                                h5["optimize_keywords.selected"], 0)) :
                  h5 \in s5}
    IN  The({Return(h6, h) : h6 \in s6})

\* the templates table of get_screenshot_templates, in the order of the
\* dict; the directions are kept as whole strings
screenshot_templates == <<
    [key |-> <<"d","e","f","a","u","l","t">>,
     shots |-> <<
        [name |-> "screenshot_1",
         directions |-> <<"Show the main interface",
                         "Highlight the core value prop",
                         "Use lifestyle imagery">>],
        [name |-> "screenshot_2",
         directions |-> <<"Show a key feature in action",
                         "Demonstrate ease of use">>],
        [name |-> "screenshot_3",
         directions |-> <<"Show another key feature",
                         "Highlight unique functionality">>],
        [name |-> "screenshot_4",
         directions |-> <<"Show results/tracking/progress",
                         "Visual proof of value">>],
        [name |-> "screenshot_5",
         directions |-> <<"Show customization/settings",
                         "Social proof or testimonials">>]
     >>],
    [key |-> <<"b","a","b","y">>,
     shots |-> <<
        [name |-> "screenshot_1",
         directions |-> <<"Cute baby photo + app overlay",
                         "Peaceful sleeping baby",
                         "Parent using app while feeding">>],
        [name |-> "screenshot_2",
         directions |-> <<"Feeding tracker interface", "Timer in action",
                         "Log entry screen">>],
        [name |-> "screenshot_3",
         directions |-> <<"Sleep tracking visualization", "Charts and patterns",
                         "Sleep schedule view">>],
        [name |-> "screenshot_4",
         directions |-> <<"Growth charts/milestones",
                         "Baby development tracker", "Weight/height tracking">>],
        [name |-> "screenshot_5",
         directions |-> <<"Multiple device sync", "Family sharing view",
                         "Export/share features">>]
     >>],
    [key |-> <<"h","e","a","l","t","h">>,
     shots |-> <<
        [name |-> "screenshot_1",
         directions |-> <<"Active person exercising",
                         "Health metrics dashboard",
                         "Before/after transformation">>],
        [name |-> "screenshot_2",
         directions |-> <<"Workout in progress", "Exercise demonstration",
                         "Heart rate monitoring">>],
        [name |-> "screenshot_3",
         directions |-> <<"Progress charts/graphs", "Statistics overview",
                         "Goal tracking">>],
        [name |-> "screenshot_4",
         directions |-> <<"Meal/nutrition tracking", "Food logging interface",
                         "Calorie counter">>],
        [name |-> "screenshot_5",
         directions |-> <<"Social features", "Achievements/badges",
                         "Community challenges">>]
     >>],
    [key |-> <<"p","r","o","d","u","c","t","i","v","i","t","y">>,
     shots |-> <<
        [name |-> "screenshot_1",
         directions |-> <<"Organized workspace", "Clean task list",
                         "Calendar overview">>],
        [name |-> "screenshot_2",
         directions |-> <<"Task creation/management", "Quick capture feature",
                         "Smart suggestions">>],
        [name |-> "screenshot_3",
         directions |-> <<"Calendar/scheduling view", "Time blocking",
                         "Reminders">>],
        [name |-> "screenshot_4",
         directions |-> <<"Collaboration features", "Sharing options",
                         "Team workspace">>],
        [name |-> "screenshot_5",
         directions |-> <<"Widgets/home screen", "Siri integration",
                         "Cross-device sync">>]
     >>],
    [key |-> <<"f","i","n","a","n","c","e">>,
     shots |-> <<
        [name |-> "screenshot_1",
         directions |-> <<"Clean dashboard", "Account overview",
                         "Balance display">>],
        [name |-> "screenshot_2",
         directions |-> <<"Expense tracking", "Transaction list",
                         "Receipt capture">>],
        [name |-> "screenshot_3",
         directions |-> <<"Budget visualization", "Spending by category",
                         "Pie/donut charts">>],
        [name |-> "screenshot_4",
         directions |-> <<"Savings goals", "Investment tracking",
                         "Net worth graph">>],
        [name |-> "screenshot_5",
         directions |-> <<"Bill reminders", "Reports/export", "Bank sync">>]
     >>],
    [key |-> <<"p","h","o","t","o">>,
     shots |-> <<
        [name |-> "screenshot_1",
         directions |-> <<"Stunning before/after", "Photo grid showcase",
                         "Artistic edit result">>],
        [name |-> "screenshot_2",
         directions |-> <<"Editing tools", "Filter selection",
                         "Adjustment sliders">>],
        [name |-> "screenshot_3",
         directions |-> <<"AI features", "Auto-enhance", "Smart adjustments">>],
        [name |-> "screenshot_4",
         directions |-> <<"Collage/mosaic maker", "Frame options",
                         "Layout selection">>],
        [name |-> "screenshot_5",
         directions |-> <<"Export/sharing", "Social media ready", "Print options">>]
     >>]
>>

\* get_category_modifiers(category): the name of the list it returns, which
\* is the list inside KEYWORD_MODIFIERS itself when a key matches
ModifiersOf(h, category) ==
    LET category_lower == Lower(category)
        table == h["KEYWORD_MODIFIERS"]
        hits == {i \in 1..Len(table) : Contains(category_lower, table[i].key)}
    IN  IF hits = {} THEN "get_category_modifiers.default"
        ELSE table[CHOOSE i \in hits : \A j \in hits : i <= j].modifiers

\* get_category_modifiers(category): only the default list is a new object
get_category_modifiers_heap(h, category) ==
    IF ModifiersOf(h, category) = "get_category_modifiers.default"
    THEN New(h, "get_category_modifiers.default", DefaultModifiers)
    ELSE h

\* find_long_tail_keywords(base_terms, category): long_tail and patterns are
\* new lists, the result is a new sorted list
find_long_tail_keywords_heap(h, base_terms, category) ==
    LET LongTailPatterns == <<
            [before |-> <<"b","e","s","t"," ">>, after |-> <<" ","a","p","p">>],
            [before |-> <<>>, after |-> <<" ","t","r","a","c","k","e","r"," ","f","r","e",
                                      "e">>],
            [before |-> <<"s","i","m","p","l","e"," ">>, after |-> <<>>],
            [before |-> <<>>, after |-> <<" ","f","o","r"," ","p","a","r","e","n","t","s">>],
            [before |-> <<"e","a","s","y"," ">>, after |-> <<" ","l","o","g">>],
            [before |-> <<"d","a","i","l","y"," ">>, after |-> <<>>],
            [before |-> <<>>, after |-> <<" ","a","s","s","i","s","t","a","n","t">>],
            [before |-> <<"m","y"," ">>, after |-> <<>>],
            [before |-> <<>>, after |-> <<" ","d","i","a","r","y">>],
            [before |-> <<>>, after |-> <<" ","j","o","u","r","n","a","l">>]
        >>
        \* the metrics find_long_tail_keywords appends: those of difficulty under 60,
        \* term by term and pattern by pattern
        LongTailFound(terms) ==
            LET np == Len(LongTailPatterns)
                keyword(k) == LongTailPatterns[((k - 1) % np) + 1].before
                              \o terms[((k - 1) \div np) + 1]
                              \o LongTailPatterns[((k - 1) % np) + 1].after
                all == [k \in 1..(Len(terms) * np) |-> estimate_keyword_value(keyword(k), category)]
            IN  SelectSeq(all, LAMBDA metrics : metrics.difficulty < 60)
        ByDifficulty(found) ==
            Sorted(found, [i \in 1..Len(found) |-> <<found[i].difficulty, 0>>])
        s1 == {New(h, "find_long_tail_keywords.long_tail", <<>>)}
        s2 == {New(h1, "find_long_tail_keywords.patterns", LongTailPatterns) : h1 \in s1}
        s3 == {Store(h2, "find_long_tail_keywords.long_tail",
                     h2["find_long_tail_keywords.long_tail"]
                     \o LongTailFound(h2[base_terms])) :
                  h2 \in s2}
    IN  The({New(h3, "find_long_tail_keywords.sorted",
                 ByDifficulty(h3["find_long_tail_keywords.long_tail"])) :
                h3 \in s3})

\* generate_keyword_report(category, app_name, base_terms), given the order
\* all_keywords in which list(combinations) came out of the set: modifiers
\* may be a list of KEYWORD_MODIFIERS; combinations, all_keywords,
\* keyword_metrics and the list of keywords handed to the packer are new;
\* keyword_metrics.sort() sorts the new list in place
generate_keyword_report_heap(h, category, app_name, base_terms, all_keywords) ==
    LET modifiers == ModifiersOf(h, category)
        head(hh) == Take(hh["generate_keyword_report.all_keywords"], EvaluatedLimit)
        ByDifficulty(metrics) ==
            Sorted(metrics, [i \in 1..Len(metrics) |-> <<metrics[i].difficulty, 0>>])
        Keywords(keyword_metrics) ==
            [i \in 1..Len(keyword_metrics) |-> keyword_metrics[i].keyword]
        s1 == {get_category_modifiers_heap(h, category)}
        s2 == {New(h1, "generate_keyword_combinations.combinations", {}) : h1 \in s1}
        s3 == {Store(h2, "generate_keyword_combinations.combinations",
                     h2["generate_keyword_combinations.combinations"]
                     \cup generate_keyword_combinations(h2[base_terms], h2[modifiers])) :
                  h2 \in s2}
        s4 == {New(h3, "generate_keyword_report.all_keywords", all_keywords) : h3 \in s3}
        s5 == {New(h4, "generate_keyword_report.keyword_metrics",
                   [i \in 1..Len(head(h4)) |->
                       estimate_keyword_value(head(h4)[i], category)]) :
                  h4 \in s4}
        s6 == {Store(h5, "generate_keyword_report.keyword_metrics",
                     ByDifficulty(h5["generate_keyword_report.keyword_metrics"])) :
                  h5 \in s5}
        s7 == {find_long_tail_keywords_heap(h6, base_terms, category) : h6 \in s6}
        s8 == {New(h7, "generate_keyword_report.keywords",
                   Keywords(h7["generate_keyword_report.keyword_metrics"])) :
                  h7 \in s7}
        s9 == {optimize_keywords_for_field_heap(h8, "generate_keyword_report.keywords",
                                                DefaultMaxChars) :
                  h8 \in s8}
    IN  The({Return(h9, h) : h9 \in s9})

\* generate_category_keywords(category): the list of the first key found in
\* category.lower(), else the default list
generate_category_keywords(category) ==
    LET \* the category_keywords table of generate_category_keywords, in the order
        \* of the dict
        category_keywords == <<
            [key |-> <<"b","a","b","y">>,
             keywords |->
               <<<<"n","e","w","b","o","r","n">>, <<"i","n","f","a","n","t">>,
                 <<"t","o","d","d","l","e","r">>, <<"n","u","r","s","i","n","g">>,
                 <<"b","r","e","a","s","t","f","e","e","d","i","n","g">>,
                 <<"f","o","r","m","u","l","a">>, <<"d","i","a","p","e","r">>,
                 <<"s","l","e","e","p">>, <<"n","a","p">>,
                 <<"s","c","h","e","d","u","l","e">>, <<"t","r","a","c","k","e","r">>,
                 <<"l","o","g">>, <<"m","o","n","i","t","o","r">>,
                 <<"p","a","r","e","n","t">>, <<"m","o","m">>, <<"d","a","d">>,
                 <<"c","a","r","e">>, <<"g","r","o","w","t","h">>,
                 <<"m","i","l","e","s","t","o","n","e">>,
                 <<"f","e","e","d","i","n","g">>, <<"p","u","m","p">>,
                 <<"w","e","a","n">>, <<"s","o","l","i","d","s">>>>],
            [key |-> <<"h","e","a","l","t","h">>,
             keywords |->
               <<<<"f","i","t","n","e","s","s">>, <<"w","o","r","k","o","u","t">>,
                 <<"e","x","e","r","c","i","s","e">>, <<"g","y","m">>,
                 <<"r","u","n","n","i","n","g">>, <<"y","o","g","a">>,
                 <<"m","e","d","i","t","a","t","i","o","n">>,
                 <<"w","e","l","l","n","e","s","s">>,
                 <<"n","u","t","r","i","t","i","o","n">>, <<"d","i","e","t">>,
                 <<"c","a","l","o","r","i","e","s">>, <<"s","t","e","p","s">>,
                 <<"h","e","a","r","t">>, <<"s","l","e","e","p">>,
                 <<"w","e","i","g","h","t">>, <<"b","m","i">>,
                 <<"t","r","a","i","n","i","n","g">>, <<"c","a","r","d","i","o">>,
                 <<"s","t","r","e","n","g","t","h">>,
                 <<"h","e","a","l","t","h","k","i","t">>>>],
            [key |-> <<"p","r","o","d","u","c","t","i","v","i","t","y">>,
             keywords |->
               <<<<"p","l","a","n","n","e","r">>,
                 <<"o","r","g","a","n","i","z","e","r">>,
                 <<"c","a","l","e","n","d","a","r">>,
                 <<"s","c","h","e","d","u","l","e">>, <<"t","o","d","o">>,
                 <<"t","a","s","k">>, <<"l","i","s","t">>, <<"n","o","t","e","s">>,
                 <<"r","e","m","i","n","d","e","r">>, <<"t","i","m","e","r">>,
                 <<"p","o","m","o","d","o","r","o">>, <<"p","r","o","j","e","c","t">>,
                 <<"m","a","n","a","g","e","r">>, <<"t","i","m","e">>,
                 <<"f","o","c","u","s">>, <<"h","a","b","i","t">>, <<"g","o","a","l">>,
                 <<"r","o","u","t","i","n","e">>>>],
            [key |-> <<"f","i","n","a","n","c","e">>,
             keywords |->
               <<<<"b","u","d","g","e","t">>, <<"m","o","n","e","y">>,
                 <<"e","x","p","e","n","s","e">>, <<"i","n","c","o","m","e">>,
                 <<"s","a","v","i","n","g","s">>, <<"d","e","b","t">>,
                 <<"b","i","l","l">>, <<"p","a","y","m","e","n","t">>,
                 <<"b","a","n","k">>, <<"c","a","s","h">>, <<"w","a","l","l","e","t">>,
                 <<"a","c","c","o","u","n","t">>,
                 <<"t","r","a","n","s","a","c","t","i","o","n">>,
                 <<"r","e","c","e","i","p","t">>, <<"i","n","v","e","s","t">>,
                 <<"c","r","y","p","t","o">>, <<"t","a","x">>,
                 <<"r","e","p","o","r","t">>>>],
            [key |-> <<"p","h","o","t","o">>,
             keywords |->
               <<<<"e","d","i","t","o","r">>, <<"f","i","l","t","e","r">>,
                 <<"e","f","f","e","c","t">>, <<"c","a","m","e","r","a">>,
                 <<"c","o","l","l","a","g","e">>, <<"v","i","d","e","o">>,
                 <<"s","l","i","d","e","s","h","o","w">>, <<"b","e","a","u","t","y">>,
                 <<"r","e","t","o","u","c","h">>, <<"f","r","a","m","e">>,
                 <<"s","t","i","c","k","e","r">>, <<"t","e","x","t">>,
                 <<"c","r","o","p">>, <<"r","o","t","a","t","e">>,
                 <<"a","d","j","u","s","t">>, <<"e","n","h","a","n","c","e">>,
                 <<"s","h","a","r","e">>>>],
            [key |-> <<"t","r","a","v","e","l">>,
             keywords |->
               <<<<"m","a","p">>, <<"n","a","v","i","g","a","t","i","o","n">>,
                 <<"g","p","s">>, <<"f","l","i","g","h","t">>, <<"h","o","t","e","l">>,
                 <<"b","o","o","k","i","n","g">>, <<"t","r","i","p">>,
                 <<"v","a","c","a","t","i","o","n">>,
                 <<"i","t","i","n","e","r","a","r","y">>, <<"g","u","i","d","e">>,
                 <<"t","r","a","n","s","l","a","t","o","r">>,
                 <<"c","u","r","r","e","n","c","y">>, <<"p","a","c","k","i","n","g">>,
                 <<"e","x","p","l","o","r","e">>,
                 <<"d","e","s","t","i","n","a","t","i","o","n">>>>],
            [key |-> <<"f","o","o","d">>,
             keywords |->
               <<<<"r","e","c","i","p","e">>, <<"c","o","o","k">>, <<"m","e","a","l">>,
                 <<"p","l","a","n">>, <<"k","i","t","c","h","e","n">>,
                 <<"g","r","o","c","e","r","y">>, <<"s","h","o","p","p","i","n","g">>,
                 <<"l","i","s","t">>, <<"n","u","t","r","i","t","i","o","n">>,
                 <<"c","a","l","o","r","i","e">>, <<"d","i","e","t">>,
                 <<"v","e","g","e","t","a","r","i","a","n">>, <<"v","e","g","a","n">>,
                 <<"r","e","s","t","a","u","r","a","n","t">>,
                 <<"d","e","l","i","v","e","r","y">>>>],
            [key |-> <<"e","d","u","c","a","t","i","o","n">>,
             keywords |->
               <<<<"l","e","a","r","n">>, <<"s","t","u","d","y">>,
                 <<"c","o","u","r","s","e">>, <<"l","e","s","s","o","n">>,
                 <<"q","u","i","z">>, <<"t","e","s","t">>,
                 <<"f","l","a","s","h","c","a","r","d">>,
                 <<"l","a","n","g","u","a","g","e">>,
                 <<"v","o","c","a","b","u","l","a","r","y">>,
                 <<"g","r","a","m","m","a","r">>, <<"m","a","t","h">>,
                 <<"s","c","i","e","n","c","e">>, <<"c","o","d","e">>,
                 <<"p","r","o","g","r","a","m","m","i","n","g">>,
                 <<"s","k","i","l","l">>>>],
            [key |-> <<"s","o","c","i","a","l">>,
             keywords |->
               <<<<"c","h","a","t">>, <<"m","e","s","s","a","g","e">>,
                 <<"c","a","l","l">>, <<"v","i","d","e","o">>,
                 <<"f","r","i","e","n","d">>, <<"g","r","o","u","p">>,
                 <<"c","o","m","m","u","n","i","t","y">>, <<"s","h","a","r","e">>,
                 <<"c","o","n","n","e","c","t">>, <<"m","e","e","t">>,
                 <<"d","a","t","i","n","g">>, <<"n","e","t","w","o","r","k">>,
                 <<"f","o","l","l","o","w">>, <<"p","o","s","t">>,
                 <<"s","t","o","r","y">>>>],
            [key |-> <<"g","a","m","e">>,
             keywords |->
               <<<<"p","u","z","z","l","e">>, <<"a","d","v","e","n","t","u","r","e">>,
                 <<"a","c","t","i","o","n">>, <<"s","t","r","a","t","e","g","y">>,
                 <<"a","r","c","a","d","e">>, <<"r","a","c","i","n","g">>,
                 <<"s","p","o","r","t","s">>, <<"w","o","r","d">>,
                 <<"t","r","i","v","i","a">>, <<"c","a","r","d">>,
                 <<"b","o","a","r","d">>,
                 <<"m","u","l","t","i","p","l","a","y","e","r">>,
                 <<"c","a","s","u","a","l">>, <<"b","r","a","i","n">>,
                 <<"q","u","i","z">>>>]
        >>
        DefaultCategoryKeywords ==
            <<<<"a","p","p">>, <<"m","o","b","i","l","e">>, <<"i","o","s">>,
              <<"t","o","o","l">>, <<"u","t","i","l","i","t","y">>,
              <<"s","i","m","p","l","e">>, <<"e","a","s","y">>, <<"f","a","s","t">>,
              <<"s","m","a","r","t">>, <<"p","r","o">>>>
        category_lower == Lower(category)
        hits == {i \in 1..Len(category_keywords) :
                    Contains(category_lower, category_keywords[i].key)}
    IN  IF hits = {} THEN DefaultCategoryKeywords
        ELSE category_keywords[CHOOSE i \in hits : \A j \in hits : i <= j].keywords

\* [x for x in items if not (x in seen or seen.add(x))]
RECURSIVE Dedup(_, _)
Dedup(items, seen) ==
    IF items = <<>> THEN <<>>
    ELSE IF Head(items) \in seen THEN Dedup(Tail(items), seen)
    ELSE <<Head(items)>> \o Dedup(Tail(items), seen \cup {Head(items)})

\* optimize_title(app_name, keywords): alternatives is a new list the
\* appends go to; keywords[:3] and alternatives[:2] are new lists
optimize_title_heap(h, app_name, keywords) ==
    IF Len(app_name) >= LongAppName
    THEN New(h, "optimize_title.alternatives", <<>>)
    ELSE LET s1 == {New(h, "optimize_title.alternatives", <<>>)}
             s2 == {New(h1, "optimize_title.keywords[:3]",
                        Take(h1[keywords], AlternativesTried)) :
                       h1 \in s1}
             s3 == {Store(h2, "optimize_title.alternatives",
                          h2["optimize_title.alternatives"]
                          \o TitleAlternatives(
                                 app_name, h2["optimize_title.keywords[:3]"],
                                 optimize_title(app_name, h2[keywords]).title)) :
                       h2 \in s2}
         IN  The({New(h3, "optimize_title.alternatives[:2]",
                      Take(h3["optimize_title.alternatives"], AlternativesShown)) :
                     h3 \in s3})

\* optimize_subtitle(app_name, category, keywords): the table, the default
\* phrases and the alternatives are new objects
optimize_subtitle_heap(h, app_name, category, keywords) ==
    LET s1 == {New(h, "optimize_subtitle.category_phrases", category_phrases)}
        s2 == {New(h1, "optimize_subtitle.phrases", DefaultPhrases) : h1 \in s1}
    IN  The({New(h2, "optimize_subtitle.alternatives",
                 optimize_subtitle(app_name, category, h2[keywords]).alternatives) :
                h2 \in s2})

\* generate_promotional_text(app_name, category) without a highlight: the
\* two lists of templates and the slice templates[1:4] are new lists
generate_promotional_text_heap(h, app_name, category) ==
    LET fitting(hh) == FittingTemplates(hh["generate_promotional_text.templates"])
        s1 == {New(h, "generate_promotional_text.templates",
                   <<JustLaunched(app_name, category), TryIt(app_name, category),
                     JoinThousands(app_name, category), LimitedTime(app_name),
                     NewUpdate(category)>>)}
        s2 == {New(h1, "generate_promotional_text.templates (fitting)",
                   IF fitting(h1) = <<>> THEN <<DownloadToday(app_name)>>
                   ELSE fitting(h1)) :
                  h1 \in s1}
    IN  The({New(h2, "generate_promotional_text.templates[1:4]",
                 Take(Drop(h2["generate_promotional_text.templates (fitting)"], 1), 3)) :
                h2 \in s2})

\* generate_description(app_name, category, features): features[:8], the
\* list of feature lines and the openings dict are new objects
generate_description_heap(h, app_name, category, features) ==
    LET shown(hh) == hh["generate_description.features[:8]"]
        s1 == {New(h, "generate_description.features[:8]",
                   Take(h[features], FeaturesShown))}
        s2 == {New(h1, "generate_description.feature_lines",
                   [i \in 1..Len(shown(h1)) |-> FeatureLine(shown(h1)[i])]) :
                  h1 \in s1}
    IN  The({New(h2, "generate_description.openings", openings(app_name)) : h2 \in s2})

\* generate_whats_new(version, features[:3]): the two slices and the list of
\* bullets are new lists
generate_whats_new_heap(h, features) ==
    LET listed(hh) == hh["generate_whats_new.features[:5]"]
        s1 == {New(h, "generate_metadata_report.features[:3]", Take(h[features], 3))}
        s2 == {New(h1, "generate_whats_new.features[:5]",
                   Take(h1["generate_metadata_report.features[:3]"], 5)) :
                  h1 \in s1}
    IN  The({New(h2, "generate_whats_new.feature_bullets",
                 [i \in 1..Len(listed(h2)) |->
                     <<Bullet, " ">> \o Title(listed(h2)[i])]) :
                h2 \in s2})

\* generate_metadata_report(app_name, category, version, custom_keywords,
\* new_features): all_keywords is the concatenation (a new list) or the list
\* generate_category_keywords returned, then a new list without duplicates;
\* features is new_features itself or a new slice of the category keywords
generate_metadata_report_heap(h, app_name, category, custom_keywords, new_features) ==
    LET concatenated(hh) == hh[custom_keywords] # <<>>
        first_keywords(hh) ==
            IF concatenated(hh) THEN "generate_metadata_report.all_keywords"
            ELSE "generate_category_keywords.keywords"
        all_keywords == "generate_metadata_report.all_keywords (unique)"
        title_data(hh) == optimize_title(app_name, hh[all_keywords])
        subtitle_data(hh) == optimize_subtitle(app_name, category, hh[all_keywords])
        given(hh) == hh[new_features] # <<>>
        features(hh) ==
            IF given(hh) THEN new_features ELSE "generate_metadata_report.features"
        s1 == {New(h, "generate_category_keywords.keywords",
                   generate_category_keywords(category))}
        s2 == {IF concatenated(h1)
               THEN New(h1, "generate_metadata_report.all_keywords",
                        h1[custom_keywords] \o h1["generate_category_keywords.keywords"])
               ELSE h1 :
                  h1 \in s1}
        s3 == {New(h2, "generate_metadata_report.seen", {}) : h2 \in s2}
        s4 == {Store(h3, "generate_metadata_report.seen",
                     h3["generate_metadata_report.seen"]
                     \cup Range(h3[first_keywords(h3)])) :
                  h3 \in s3}
        s5 == {New(h4, all_keywords, Dedup(h4[first_keywords(h4)], {})) : h4 \in s4}
        s6 == {optimize_title_heap(h5, app_name, all_keywords) : h5 \in s5}
        s7 == {optimize_subtitle_heap(h6, app_name, category, all_keywords) : h6 \in s6}
        s8 == {optimize_keywords_heap(h7, all_keywords, title_data(h7).title,
                                      subtitle_data(h7).subtitle) :
                  h7 \in s7}
        s9 == {generate_promotional_text_heap(h8, app_name, category) : h8 \in s8}
        s10 == {IF given(h9) THEN h9
                ELSE New(h9, "generate_metadata_report.features",
                         Take(h9["generate_category_keywords.keywords"], 5)) :
                   h9 \in s9}
        s11 == {generate_description_heap(h10, app_name, category, features(h10)) :
                   h10 \in s10}
        s12 == {generate_whats_new_heap(h11, features(h11)) : h11 \in s11}
    IN  The({Return(h12, h) : h12 \in s12})

\* get_screenshot_templates(category): the shots of the first key found in
\* category.lower(), else those of 'default'
get_screenshot_templates(category) ==
    LET category_lower == Lower(category)
        hits == {i \in 1..Len(screenshot_templates) :
                    Contains(category_lower, screenshot_templates[i].key)}
    IN  IF hits = {} THEN screenshot_templates[1].shots
        ELSE screenshot_templates[CHOOSE i \in hits : \A j \in hits : i <= j].shots

\* the concept generate_screenshot_concepts appends for index i (from 0) and
\* the key at that index
ScreenshotConcept(features, category, templates, i, key) ==
    LET CoreFeature == <<"C","o","r","e"," ","F","e","a","t","u","r","e">>
        Purposes == <<"Hero/Value Prop", "Feature 1", "Feature 2", "Feature 3", "Feature 4">>
        \* headlines[idx][0] of generate_text_overlay, for idx 0..4
        FirstHeadlines == <<
            <<"S","i","m","p","l","e"," ","&"," ","I","n","t","u","i","t","i","v","e">>,
            <<"T","r","a","c","k"," ","E","v","e","r","y","t","h","i","n","g">>,
            <<"S","e","e"," ","P","a","t","t","e","r","n","s">>,
            <<"W","a","t","c","h"," ","T","h","e","m"," ","G","r","o","w">>,
            <<"S","h","a","r","e"," ","w","i","t","h"," ","F","a","m","i","l","y">>
        >>
        \* subheadlines[idx][0] of generate_text_overlay, for idx 0..4
        FirstSubheadlines(feature) == <<
            <<"B","e","a","u","t","i","f","u","l"," ","d","e","s","i","g","n"," ","t",
              "h","a","t"," ","j","u","s","t"," ","w","o","r","k","s">>,
            <<"L","o","g"," ">> \o feature \o <<" ","i","n"," ","s","e","c","o","n","d","s">>,
            <<"S","p","o","t"," ","t","r","e","n","d","s"," ","a","t"," ","a"," ","g",
              "l","a","n","c","e">>,
            <<"T","r","a","c","k"," ","e","v","e","r","y"," ","m","i","l","e","s","t",
              "o","n","e">>,
            <<"M","u","l","t","i","-","d","e","v","i","c","e"," ","s","y","n","c">>
        >>
        feature == IF i < Len(features) THEN features[i + 1]
                   ELSE IF features # <<>> THEN features[Len(features)]
                   ELSE CoreFeature
        named == {j \in 1..Len(templates) : templates[j].name = key}
        template_options == IF named = {} THEN templates[1].directions
                            ELSE templates[CHOOSE j \in named : TRUE].directions
        idx == Min(i, 4)
    IN  [position |-> i + 1,
         purpose |-> Purposes[i + 1],
         feature_to_show |-> feature,
         visual_direction |-> template_options,
         text_overlay |-> [headline |-> FirstHeadlines[idx + 1],
                           subheadline |-> FirstSubheadlines(feature)[idx + 1]],
         call_to_action |-> IF i = 4 THEN "Download now" ELSE None,
         notes |-> IF i = 0 THEN "Lead with emotion on first screenshot"
                   ELSE "Show actual UI interface"]

\* generate_screenshot_concepts(app_name, features, category): the templates
\* dict, concepts and screenshot_order are new objects, the appends go to
\* concepts
generate_screenshot_concepts_heap(h, app_name, features, category) ==
    LET screenshot_order ==
            <<"screenshot_1", "screenshot_2", "screenshot_3", "screenshot_4", "screenshot_5">>
        templates == get_screenshot_templates(category)
        s1 == {New(h, "get_screenshot_templates.templates", screenshot_templates)}
        s2 == {New(h1, "generate_screenshot_concepts.concepts", <<>>) : h1 \in s1}
        s3 == {New(h2, "generate_screenshot_concepts.screenshot_order", screenshot_order) :
                  h2 \in s2}
        s4 == {Store(h3, "generate_screenshot_concepts.concepts",
                     h3["generate_screenshot_concepts.concepts"]
                     \o [k \in 1..Len(screenshot_order) |->
                            ScreenshotConcept(h3[features], category, templates, k - 1,
                                              screenshot_order[k])]) :
                  h3 \in s3}
    IN  The({Return(h4, h) : h4 \in s4})

-----------------------------------------------------------------------------
(* Calls on objects the caller keeps                                        *)

\* the heap with the caller's objects added under their names
WithObjects(h, objects) == objects @@ h

A_rated == [trackName |-> "n", price |-> 990, averageUserRating |-> 45,
            userRatingCount |-> 10,
            description |-> <<"S","y","n","c"," ","w","i","d","g","e","t">>]
A_bare == [trackName |-> "m"]

\* the lists the caller passes: the keyword lists out of order and with
\* duplicates
CallerObjects ==
    [apps : {<<A_bare>>, <<A_rated, A_bare>>},
     keywords : {<<T_ab, T_a>>, <<Rep("e", 101), T_b, T_a>>},
     base_terms : {<<T_b>>, <<T_Ab_padded>>},
     custom_keywords : {<<>>, <<T_b, T_a, T_b>>},
     new_features : {<<F_sleep, T_a>>},
     features : {<<T_b, T_a>>}]

HeapCategories == {W_baby, <<"m","u","s","i","c">>}
HeapAppNames == {<<"M","y"," ","A","p","p">>, Rep("n", 28)}

InitHeap ==
    /\ call = [fn |-> None]
    /\ ret = <<>>
    /\ heap \in {WithObjects(ModuleHeap, objects) : objects \in CallerObjects}
    /\ IdleRun

Call_analyze_pricing ==
    /\ heap' = analyze_pricing_heap(heap, "apps")
    /\ call' = [fn |-> "analyze_pricing"]
    /\ UNCHANGED <<ret, runVars>>

Call_analyze_ratings ==
    /\ heap' = analyze_ratings_heap(heap, "apps")
    /\ call' = [fn |-> "analyze_ratings"]
    /\ UNCHANGED <<ret, runVars>>

Call_generate_gap_analysis ==
    /\ \E category \in HeapCategories :
          /\ heap' = generate_gap_analysis_heap(heap, "apps", category)
          /\ call' = [fn |-> "generate_gap_analysis", category |-> category]
    /\ UNCHANGED <<ret, runVars>>

Call_optimize_keywords_for_field ==
    /\ \E max_chars \in {3, DefaultMaxChars} :
          /\ heap' = optimize_keywords_for_field_heap(heap, "keywords", max_chars)
          /\ call' = [fn |-> "optimize_keywords_for_field", max_chars |-> max_chars]
    /\ UNCHANGED <<ret, runVars>>

Call_optimize_keywords ==
    /\ \E title \in {<<>>, <<"A","b">>} :
          /\ heap' = optimize_keywords_heap(heap, "keywords", title, <<"b">>)
          /\ call' = [fn |-> "optimize_keywords", title |-> title, subtitle |-> <<"b">>]
    /\ UNCHANGED <<ret, runVars>>

Call_generate_keyword_report ==
    /\ \E category \in HeapCategories :
       \E all_keywords \in Orders(generate_keyword_combinations(
                                      heap["base_terms"],
                                      get_category_modifiers_heap(heap, category)[
                                          ModifiersOf(heap, category)])) :
          /\ heap' = generate_keyword_report_heap(heap, category, <<"M","y">>,
                                                  "base_terms", all_keywords)
          /\ call' = [fn |-> "generate_keyword_report", category |-> category]
    /\ UNCHANGED <<ret, runVars>>

Call_generate_metadata_report ==
    /\ \E category \in HeapCategories, app_name \in HeapAppNames :
          /\ heap' = generate_metadata_report_heap(heap, app_name, category,
                                                   "custom_keywords", "new_features")
          /\ call' = [fn |-> "generate_metadata_report", category |-> category,
                      app_name |-> app_name]
    /\ UNCHANGED <<ret, runVars>>

Call_generate_screenshot_concepts ==
    /\ \E category \in HeapCategories :
          /\ heap' = generate_screenshot_concepts_heap(heap, <<"M","y">>, "features",
                                                       category)
          /\ call' = [fn |-> "generate_screenshot_concepts", category |-> category]
    /\ UNCHANGED <<ret, runVars>>

NextHeap ==
    \/ Call_analyze_pricing
    \/ Call_analyze_ratings
    \/ Call_generate_gap_analysis
    \/ Call_optimize_keywords_for_field
    \/ Call_optimize_keywords
    \/ Call_generate_keyword_report
    \/ Call_generate_metadata_report
    \/ Call_generate_screenshot_concepts

SpecHeap == InitHeap /\ [][NextHeap]_vars

\* C16: no call of the analysis and packing functions changes a list or
\* dict its caller passed or a module-level table (KEYWORD_MODIFIERS,
\* SCREENSHOT_DIMENSIONS): every step leaves every object the caller can
\* reach as it was.
C16_NoSharedStateModified == [][heap' = heap]_vars

\* optimize_keywords_for_field has just returned and the caller's list is
\* still in the order it was passed in, longest keyword first, and the
\* tables are as the modules define them
C16_Witness ==
    /\ call.fn = "optimize_keywords_for_field"
    /\ heap["keywords"] = <<Rep("e", 101), T_b, T_a>>
    /\ heap["custom_keywords"] = <<T_b, T_a, T_b>>
    /\ heap["KEYWORD_MODIFIERS.baby"] = <<W_newborn>>
    /\ heap["SCREENSHOT_DIMENSIONS"] = SCREENSHOT_DIMENSIONS

====
